---- MODULE Spec2Model ----
(***************************************************************************)
(* A model of fsm-go: the graph primitives (State, Transition), the        *)
(* transition-selection engine (FireEvent, FireParallelEvent, Verify),     *)
(* the builder (Perform, Build) and the registry it publishes to.          *)
(***************************************************************************)
EXTENDS Integers, Sequences, FiniteSets, TLC

\* ---------------------------------------------------------------- bounds
\* Largest number of transitions registered in one machine.
MaxTransitions == 2

\* ------------------------------------------------------- input universes
\* State identifiers and events a builder chain or a caller may name.
StateIds == {"A", "B"}
Events == {"E1"}
MachineIds == {"m1"}
\* The lists of states a caller supplies: the arguments of FromAmong(states...)
\* and ToAmong(states...), the targets of State.AddParallelTransitions.
StateIdLists == {<<>>} \cup {<<x>> : x \in StateIds}
                   \cup {<<x, y>> : x \in StateIds, y \in StateIds}

\* nil (absent condition / action / error / *State)
Nil == "nil"
\* zero value of the state type S (var zeroState S)
zeroState == ""
\* zero value of the event type E
zeroEvent == ""
\* Events a transition is registered under: those given to On, and the zero
\* value, the event of a chain that does not call On.
ChainEvents == Events \cup {zeroEvent}

\* TransitionType
External == 0
Internal == 1
TransitionTypes == {External, Internal}

\* Payloads: an order context with an amount; Flaky marks a payload on which
\* the guard's answer changes from one evaluation to the next.
Contexts == {[Amount |-> 0, Flaky |-> FALSE],
             [Amount |-> 1, Flaky |-> FALSE],
             [Amount |-> 1, Flaky |-> TRUE]}
\* Guards a caller may supply: none, or AmountPositive.
Conditions == {Nil, "AmountPositive"}
\* Effects a caller may supply: none, one that returns nil, one that returns ErrEffect.
Actions == {Nil, "Ok", "Fail"}
\* the error value returned by the failing effect
ErrEffect == "effect failed"

VARIABLES
    stateMap,   \* StateMachineImpl.stateMap : state id -> State
    ready,      \* StateMachineImpl.ready
    id,         \* StateMachineImpl.id
    registry,   \* registry.stateMachines : machine id -> machine
    lastCall,   \* the public call that has just returned: arguments, results,
                \* and the guard evaluations and effect executions it made
    chain,      \* the transition builder of the fluent chain being written
    peer,       \* id and ready of the machine of a second StateMachineBuilder
    threads,    \* per goroutine: the call it is in and its position in the call
    mutex,      \* StateMachineImpl.mutex (sync.RWMutex)
    held        \* the machines a caller holds: those Build or GetStateMachine
                \* has returned to it

vars == <<stateMap, ready, id, registry, lastCall, chain, peer, threads, mutex, held>>

\* ----------------------------------------------------------------- errors
NoError == [msg |-> Nil, cause |-> Nil]
StateMachineNotReady == [msg |-> "state machine is not built yet", cause |-> Nil]
StateNotFound == [msg |-> "state not found", cause |-> Nil]
TransitionNotFound == [msg |-> "no transition found for event", cause |-> Nil]
ConditionNotMet == [msg |-> "no transition conditions met for event", cause |-> Nil]
InternalTransitionInvariantViolated ==
    [msg |-> "internal transition source and target states must be the same", cause |-> Nil]
\* ActionExecutionFailed that returns a fixed error and drops the effect's own
ActionExecutionFailedUnwrapped(err) == [msg |-> "action execution failed", cause |-> Nil]
\* errors.Wrap(err, "action execution failed")
ActionExecutionFailed(err) == [msg |-> "action execution failed", cause |-> err]
StateMachineAlreadyExist == [msg |-> "state machine already exists", cause |-> Nil]
StateMachineNotFound == [msg |-> "state machine not found", cause |-> Nil]

\* ------------------------------------------------------- graph primitives
\* NewState(id)
NewState(sid) == [id |-> sid, eventTransitions |-> <<>>]

\* State.GetEventTransitions(event): the list, or nil (empty) when the key is missing
GetEventTransitions(state, event) ==
    IF event \in DOMAIN state.eventTransitions
    THEN state.eventTransitions[event]
    ELSE <<>>

\* State.AddTransition(event, target, transType): appends to the event's list
AddTransition(state, event, target, transType) ==
    LET transition == [Source |-> state.id, Target |-> target, Event |-> event,
                       Condition |-> Nil, Action |-> Nil, TransType |-> transType]
        old == GetEventTransitions(state, event)
    IN [state EXCEPT !.eventTransitions =
            [e \in DOMAIN state.eventTransitions \cup {event} |->
                IF e = event THEN Append(old, transition)
                ELSE state.eventTransitions[e]]]

\* GetState that makes a new state on every reference
GetStateAlwaysNew(sm, stateId) ==
    [s \in DOMAIN sm \cup {stateId} |->
        IF s = stateId THEN NewState(stateId) ELSE sm[s]]

\* StateMachineImpl.GetState(stateId): the cached state, created on first reference
GetState(sm, stateId) ==
    IF stateId \in DOMAIN sm THEN sm
    ELSE [s \in DOMAIN sm \cup {stateId} |->
            IF s = stateId THEN NewState(stateId) ELSE sm[s]]

\* ------------------------------------------------------ guards and effects
\* The environment of one call: env.evals counts the guard evaluations made so
\* far, env.log lists the guard evaluations and effect executions in order.
NewEnv == [evals |-> 0, log |-> <<>>]

\* ConditionFunc[C](f): the function value f, nil included, as a Condition
ConditionFunc(f) ==
    IF f = Nil THEN "ConditionFunc(nil)" ELSE "ConditionFunc(AmountPositive)"
\* ActionFunc[S, E, C](g): the function value g, nil included, as an Action
ActionFunc(g) ==
    CASE g = Nil -> "ActionFunc(nil)"
      [] g = "Ok" -> "ActionFunc(Ok)"
      [] g = "Fail" -> "ActionFunc(Fail)"
\* the function a ConditionFunc / ActionFunc value holds and calls
FuncOf(v) ==
    CASE v = "ConditionFunc(nil)" -> Nil
      [] v = "ConditionFunc(AmountPositive)" -> "AmountPositive"
      [] v = "ActionFunc(nil)" -> Nil
      [] v = "ActionFunc(Ok)" -> "Ok"
      [] v = "ActionFunc(Fail)" -> "Fail"
FuncValues == {"ConditionFunc(nil)", "ConditionFunc(AmountPositive)",
               "ActionFunc(nil)", "ActionFunc(Ok)", "ActionFunc(Fail)"}
\* a non-nil interface value holding the nil function: calling its method
\* calls the nil function, a run-time panic
CallPanics(v) == v \in {ConditionFunc(Nil), ActionFunc(Nil)}
\* the run-time panic that unwinds the call: no result and no error is returned
Panic == [msg |-> "panic: runtime error: invalid memory address or nil pointer dereference",
          cause |-> Nil]

\* Condition.IsSatisfied(ctx) as the n-th guard evaluation in the call: the
\* guard AmountPositive itself, or the function a ConditionFunc holds;
\* AmountPositive is ctx.Amount > 0, except that on a flaky payload it holds on
\* the odd evaluations only
IsSatisfied(cond, ctx, n) ==
    LET f == IF cond \in FuncValues THEN FuncOf(cond) ELSE cond
    IN IF f = "AmountPositive"
       THEN IF ctx.Flaky THEN n % 2 = 1 ELSE ctx.Amount > 0
       ELSE FALSE

\* Action.Execute(from, to, event, ctx): the returned error
Execute(action, from, to, event, ctx) ==
    LET g == IF action \in FuncValues THEN FuncOf(action) ELSE action
    IN IF g = "Fail" THEN ErrEffect ELSE Nil

\* trace entries of one call
GuardEntry(i, v) == [kind |-> "guard", idx |-> i, val |-> v, from |-> Nil, to |-> Nil]
ExecEntry(i, t) == [kind |-> "exec", idx |-> i, val |-> TRUE, from |-> t.Source, to |-> t.Target]

\* evaluating transition i's guard in env: the answer and the environment after
EvalCondition(t, i, ctx, env) ==
    LET v == IsSatisfied(t.Condition, ctx, env.evals + 1)
    IN [val |-> v,
        env |-> [evals |-> env.evals + 1, log |-> Append(env.log, GuardEntry(i, v))]]

\* Transit without the check of internal transitions
TransitUnchecked(t, i, ctx, checkCondition, env) ==
    LET chk == checkCondition /\ t.Condition # Nil
        c == IF chk THEN EvalCondition(t, i, ctx, env) ELSE [val |-> TRUE, env |-> env]
    IN IF chk /\ ~c.val
       THEN [state |-> t.Source, err |-> NoError, env |-> c.env]
       ELSE IF t.Action # Nil
            THEN LET e == Execute(t.Action, t.Source, t.Target, t.Event, ctx)
                     env2 == [c.env EXCEPT !.log = Append(c.env.log, ExecEntry(i, t))]
                 IN IF e # Nil
                    THEN [state |-> Nil, err |-> ActionExecutionFailed(e), env |-> env2]
                    ELSE [state |-> t.Target, err |-> NoError, env |-> env2]
            ELSE [state |-> t.Target, err |-> NoError, env |-> c.env]

\* Transit that runs no effect on an internal transition
TransitInternalNoEffect(t, i, ctx, checkCondition, env) ==
    IF t.TransType = Internal /\ t.Source # t.Target
    THEN [state |-> Nil, err |-> InternalTransitionInvariantViolated, env |-> env]
    ELSE
      LET chk == checkCondition /\ t.Condition # Nil
          c == IF chk THEN EvalCondition(t, i, ctx, env) ELSE [val |-> TRUE, env |-> env]
      IN IF chk /\ ~c.val
         THEN [state |-> t.Source, err |-> NoError, env |-> c.env]
         ELSE IF t.Action # Nil /\ t.TransType # Internal
              THEN LET e == Execute(t.Action, t.Source, t.Target, t.Event, ctx)
                       env2 == [c.env EXCEPT !.log = Append(c.env.log, ExecEntry(i, t))]
                   IN IF e # Nil
                      THEN [state |-> Nil, err |-> ActionExecutionFailed(e), env |-> env2]
                      ELSE [state |-> t.Target, err |-> NoError, env |-> env2]
              ELSE [state |-> t.Target, err |-> NoError, env |-> c.env]

\* Transition.Transit(ctx, checkCondition); i is the transition's position in its list
Transit(t, i, ctx, checkCondition, env) ==
    IF t.TransType = Internal /\ t.Source # t.Target
    THEN [state |-> Nil, err |-> InternalTransitionInvariantViolated, env |-> env]
    ELSE
      LET chk == checkCondition /\ t.Condition # Nil
          c == IF chk THEN EvalCondition(t, i, ctx, env) ELSE [val |-> TRUE, env |-> env]
      IN IF chk /\ CallPanics(t.Condition)
         THEN [state |-> Nil, err |-> Panic, env |-> env]
         ELSE IF chk /\ ~c.val
         THEN [state |-> t.Source, err |-> NoError, env |-> c.env]
         ELSE IF t.Action # Nil /\ CallPanics(t.Action)
         THEN [state |-> Nil, err |-> Panic, env |-> c.env]
         ELSE IF t.Action # Nil
              THEN LET e == Execute(t.Action, t.Source, t.Target, t.Event, ctx)
                       env2 == [c.env EXCEPT !.log = Append(c.env.log, ExecEntry(i, t))]
                   IN IF e # Nil
                      THEN [state |-> Nil, err |-> ActionExecutionFailed(e), env |-> env2]
                      ELSE [state |-> t.Target, err |-> NoError, env |-> env2]
              ELSE [state |-> t.Target, err |-> NoError, env |-> c.env]

\* --------------------------------------------------------------- FireEvent
\* FireEventLoop with the scan running from the last registered transition to
\* the first, so that the latest matching transition wins
RECURSIVE FireEventLoopBackwards(_, _, _, _)
FireEventLoopBackwards(transitions, i, ctx, env) ==
    IF i > Len(transitions)
    THEN [state |-> zeroState, err |-> ConditionNotMet, env |-> env]
    ELSE
      LET j == Len(transitions) + 1 - i
          t == transitions[j]
          c == IF t.Condition = Nil THEN [val |-> TRUE, env |-> env]
               ELSE EvalCondition(t, j, ctx, env)
      IN IF c.val
         THEN LET r == Transit(t, j, ctx, TRUE, c.env)
              IN IF r.err # NoError
                 THEN [state |-> zeroState, err |-> r.err, env |-> r.env]
                 ELSE [state |-> r.state, err |-> NoError, env |-> r.env]
         ELSE FireEventLoopBackwards(transitions, i + 1, ctx, c.env)

\* FireEventLoop that goes on scanning after it has taken a transition
RECURSIVE FireEventLoopKeepScanning(_, _, _, _)
FireEventLoopKeepScanning(transitions, i, ctx, env) ==
    IF i > Len(transitions)
    THEN [state |-> zeroState, err |-> ConditionNotMet, env |-> env]
    ELSE
      LET t == transitions[i]
          c == IF t.Condition = Nil THEN [val |-> TRUE, env |-> env]
               ELSE EvalCondition(t, i, ctx, env)
      IN IF c.val
         THEN LET r == Transit(t, i, ctx, TRUE, c.env)
                  rest == FireEventLoopKeepScanning(transitions, i + 1, ctx, r.env)
              IN IF r.err # NoError
                 THEN [state |-> zeroState, err |-> r.err, env |-> r.env]
                 ELSE [state |-> r.state, err |-> NoError, env |-> rest.env]
         ELSE FireEventLoopKeepScanning(transitions, i + 1, ctx, c.env)

\* FireEventLoop that tries the next candidate when taking a transition failed
RECURSIVE FireEventLoopRetryNext(_, _, _, _)
FireEventLoopRetryNext(transitions, i, ctx, env) ==
    IF i > Len(transitions)
    THEN [state |-> zeroState, err |-> ConditionNotMet, env |-> env]
    ELSE
      LET t == transitions[i]
          c == IF t.Condition = Nil THEN [val |-> TRUE, env |-> env]
               ELSE EvalCondition(t, i, ctx, env)
      IN IF c.val
         THEN LET r == Transit(t, i, ctx, TRUE, c.env)
              IN IF r.err # NoError
                 THEN FireEventLoopRetryNext(transitions, i + 1, ctx, r.env)
                 ELSE [state |-> r.state, err |-> NoError, env |-> r.env]
         ELSE FireEventLoopRetryNext(transitions, i + 1, ctx, c.env)

\* the loop "for _, transition := range transitions" of FireEvent, from position i
RECURSIVE FireEventLoop(_, _, _, _)
FireEventLoop(transitions, i, ctx, env) ==
    IF i > Len(transitions)
    THEN [state |-> zeroState, err |-> ConditionNotMet, env |-> env]
    ELSE
      LET t == transitions[i]
          c == IF t.Condition = Nil THEN [val |-> TRUE, env |-> env]
               ELSE EvalCondition(t, i, ctx, env)
      IN IF t.Condition # Nil /\ CallPanics(t.Condition)
         THEN [state |-> zeroState, err |-> Panic, env |-> env]
         ELSE IF c.val
         THEN LET r == Transit(t, i, ctx, TRUE, c.env)
              IN IF r.err # NoError
                 THEN [state |-> zeroState, err |-> r.err, env |-> r.env]
                 ELSE [state |-> r.state, err |-> NoError, env |-> r.env]
         ELSE FireEventLoop(transitions, i + 1, ctx, c.env)

\* FireEvent without the check for an empty transition list
FireEventResultNoEmptyCheck(sm, rdy, sourceStateId, event, ctx) ==
    IF ~rdy
    THEN [state |-> zeroState, err |-> StateMachineNotReady, env |-> NewEnv]
    ELSE IF sourceStateId \notin DOMAIN sm
    THEN [state |-> zeroState, err |-> StateNotFound, env |-> NewEnv]
    ELSE FireEventLoop(GetEventTransitions(sm[sourceStateId], event), 1, ctx, NewEnv)

\* FireEvent without the readiness check
FireEventResultNoReadyCheck(sm, rdy, sourceStateId, event, ctx) ==
    IF sourceStateId \notin DOMAIN sm
    THEN [state |-> zeroState, err |-> StateNotFound, env |-> NewEnv]
    ELSE LET transitions == GetEventTransitions(sm[sourceStateId], event)
         IN IF Len(transitions) = 0
            THEN [state |-> zeroState, err |-> TransitionNotFound, env |-> NewEnv]
            ELSE FireEventLoop(transitions, 1, ctx, NewEnv)

\* StateMachineImpl.FireEvent(sourceStateId, event, ctx)
FireEventResult(sm, rdy, sourceStateId, event, ctx) ==
    IF ~rdy
    THEN [state |-> zeroState, err |-> StateMachineNotReady, env |-> NewEnv]
    ELSE IF sourceStateId \notin DOMAIN sm
    THEN [state |-> zeroState, err |-> StateNotFound, env |-> NewEnv]
    ELSE LET transitions == GetEventTransitions(sm[sourceStateId], event)
         IN IF Len(transitions) = 0
            THEN [state |-> zeroState, err |-> TransitionNotFound, env |-> NewEnv]
            ELSE FireEventLoop(transitions, 1, ctx, NewEnv)

\* ------------------------------------------------------- FireParallelEvent
\* FindValidTransitions that stops at the first valid transition
RECURSIVE FindValidTransitionsFirstOnly(_, _, _, _, _)
FindValidTransitionsFirstOnly(transitions, i, ctx, env, valid) ==
    IF i > Len(transitions)
    THEN [valid |-> valid, env |-> env, panic |-> FALSE]
    ELSE
      LET t == transitions[i]
          c == IF t.Condition = Nil THEN [val |-> TRUE, env |-> env]
               ELSE EvalCondition(t, i, ctx, env)
      IN IF c.val
         THEN [valid |-> Append(valid, i), env |-> c.env, panic |-> FALSE]
         ELSE FindValidTransitionsFirstOnly(transitions, i + 1, ctx, c.env, valid)

\* first loop of FireParallelEvent: the positions of the transitions whose
\* condition is nil or satisfied, from position i
RECURSIVE FindValidTransitions(_, _, _, _, _)
FindValidTransitions(transitions, i, ctx, env, valid) ==
    IF i > Len(transitions)
    THEN [valid |-> valid, env |-> env, panic |-> FALSE]
    ELSE
      LET t == transitions[i]
          c == IF t.Condition = Nil THEN [val |-> TRUE, env |-> env]
               ELSE EvalCondition(t, i, ctx, env)
      IN IF t.Condition # Nil /\ CallPanics(t.Condition)
         THEN [valid |-> valid, env |-> env, panic |-> TRUE]
         ELSE
         FindValidTransitions(transitions, i + 1, ctx, c.env,
                              IF c.val THEN Append(valid, i) ELSE valid)

\* ExecuteValidTransitions that runs the remaining valid transitions after a
\* failure before it reports the failure
RECURSIVE ExecuteValidTransitionsContinue(_, _, _, _, _, _)
ExecuteValidTransitionsContinue(transitions, valid, k, ctx, env, results) ==
    IF k > Len(valid)
    THEN [states |-> results, err |-> NoError, env |-> env]
    ELSE
      LET r == Transit(transitions[valid[k]], valid[k], ctx, FALSE, env)
      IN IF r.err # NoError
         THEN [states |-> <<>>, err |-> r.err,
               env |-> ExecuteValidTransitionsContinue(transitions, valid, k + 1, ctx,
                                                       r.env, results).env]
         ELSE ExecuteValidTransitionsContinue(transitions, valid, k + 1, ctx, r.env,
                                              Append(results, r.state))

\* second loop of FireParallelEvent: Transit(ctx, false) on every valid
\* transition, from position k of validTransitions
RECURSIVE ExecuteValidTransitions(_, _, _, _, _, _)
ExecuteValidTransitions(transitions, valid, k, ctx, env, results) ==
    IF k > Len(valid)
    THEN [states |-> results, err |-> NoError, env |-> env]
    ELSE
      LET r == Transit(transitions[valid[k]], valid[k], ctx, FALSE, env)
      IN IF r.err # NoError
         THEN [states |-> <<>>, err |-> r.err, env |-> r.env]
         ELSE ExecuteValidTransitions(transitions, valid, k + 1, ctx, r.env,
                                      Append(results, r.state))

\* one loop that takes each transition as soon as its guard has answered true
RECURSIVE InterleavedLoop(_, _, _, _, _)
InterleavedLoop(transitions, i, ctx, env, results) ==
    IF i > Len(transitions)
    THEN IF Len(results) = 0
         THEN [states |-> <<>>, err |-> ConditionNotMet, env |-> env]
         ELSE [states |-> results, err |-> NoError, env |-> env]
    ELSE
      LET t == transitions[i]
          c == IF t.Condition = Nil THEN [val |-> TRUE, env |-> env]
               ELSE EvalCondition(t, i, ctx, env)
      IN IF c.val
         THEN LET r == Transit(t, i, ctx, FALSE, c.env)
              IN IF r.err # NoError
                 THEN [states |-> <<>>, err |-> r.err, env |-> r.env]
                 ELSE InterleavedLoop(transitions, i + 1, ctx, r.env,
                                      Append(results, r.state))
         ELSE InterleavedLoop(transitions, i + 1, ctx, c.env, results)

\* FireParallelEvent in one phase: guards and effects interleaved
FireParallelEventResultInterleaved(sm, rdy, sourceStateId, event, ctx) ==
    IF ~rdy
    THEN [states |-> <<>>, err |-> StateMachineNotReady, env |-> NewEnv]
    ELSE IF sourceStateId \notin DOMAIN sm
    THEN [states |-> <<>>, err |-> StateNotFound, env |-> NewEnv]
    ELSE LET transitions == GetEventTransitions(sm[sourceStateId], event)
         IN IF Len(transitions) = 0
            THEN [states |-> <<>>, err |-> TransitionNotFound, env |-> NewEnv]
            ELSE InterleavedLoop(transitions, 1, ctx, NewEnv, <<>>)

\* StateMachineImpl.FireParallelEvent(sourceStateId, event, ctx)
FireParallelEventResult(sm, rdy, sourceStateId, event, ctx) ==
    IF ~rdy
    THEN [states |-> <<>>, err |-> StateMachineNotReady, env |-> NewEnv]
    ELSE IF sourceStateId \notin DOMAIN sm
    THEN [states |-> <<>>, err |-> StateNotFound, env |-> NewEnv]
    ELSE LET transitions == GetEventTransitions(sm[sourceStateId], event)
         IN IF Len(transitions) = 0
            THEN [states |-> <<>>, err |-> TransitionNotFound, env |-> NewEnv]
            ELSE LET f == FindValidTransitions(transitions, 1, ctx, NewEnv, <<>>)
                 IN IF f.panic
                    THEN [states |-> <<>>, err |-> Panic, env |-> f.env]
                    ELSE IF Len(f.valid) = 0
                    THEN [states |-> <<>>, err |-> ConditionNotMet, env |-> f.env]
                    ELSE ExecuteValidTransitions(transitions, f.valid, 1, ctx, f.env, <<>>)

\* ------------------------------------------------------------------ Verify
\* Verify that only looks the state up
VerifyResultStateOnly(sm, rdy, sourceStateId, event) ==
    IF ~rdy THEN FALSE
    ELSE sourceStateId \in DOMAIN sm

\* Verify that does not look at the readiness flag
VerifyResultIgnoresReady(sm, rdy, sourceStateId, event) ==
    IF sourceStateId \notin DOMAIN sm THEN FALSE
    ELSE Len(GetEventTransitions(sm[sourceStateId], event)) > 0

\* StateMachineImpl.Verify(sourceStateId, event)
VerifyResult(sm, rdy, sourceStateId, event) ==
    IF ~rdy THEN FALSE
    ELSE IF sourceStateId \notin DOMAIN sm THEN FALSE
    ELSE Len(GetEventTransitions(sm[sourceStateId], event)) > 0

\* ----------------------------------------------------------------- builder
\* all transitions of the graph, as (state, event, position) triples
TransitionKeys(sm) ==
    {k \in (DOMAIN sm) \X ChainEvents \X (1..MaxTransitions + 1) :
        k[3] <= Len(GetEventTransitions(sm[k[1]], k[2]))}

\* TransitionBuilder.Perform / PerformFunc after From(sourceId).To(targetId).On(event).When(condition)
PerformResult(sm, transitionType, sourceId, targetId, event, condition, action) ==
    LET sm1 == GetState(sm, sourceId)
        sm2 == GetState(sm1, targetId)
        sourceState == AddTransition(sm2[sourceId], event, targetId, transitionType)
        n == Len(sourceState.eventTransitions[event])
    IN [sm2 EXCEPT ![sourceId] =
            [sourceState EXCEPT !.eventTransitions[event][n] =
                [@ EXCEPT !.Condition = condition, !.Action = action]]]

\* ------------------------------------------------------ registry functions
\* The machines: sm, built by the first builder, and the machine of a second builder.
Machines == {"sm", "peer"}
\* The instantiation StateMachine[S, E, C] a machine belongs to.
MachineType(machine) == IF machine = "sm" THEN "Order" ELSE "Workflow"
MachineTypes == {MachineType(m) : m \in Machines}

\* RegisterStateMachine that overwrites the entry of an identifier in use
RegisterStateMachineOverwrite(reg, machineId, machine) ==
    [reg |-> [m \in DOMAIN reg \cup {machineId} |->
                 IF m = machineId THEN machine ELSE reg[m]],
     err |-> NoError]

\* RegisterStateMachine(machineId, stateMachine): the table after the call and the error
RegisterStateMachineResult(reg, machineId, machine) ==
    IF machineId \in DOMAIN reg
    THEN [reg |-> reg, err |-> StateMachineAlreadyExist]
    ELSE [reg |-> [m \in DOMAIN reg \cup {machineId} |->
                      IF m = machineId THEN machine ELSE reg[m]],
          err |-> NoError]

\* GetStateMachine[S, E, C](machineId): the machine and the error
GetStateMachineResult(reg, machineId, type) ==
    IF machineId \in DOMAIN reg
    THEN IF MachineType(reg[machineId]) = type
         THEN [machine |-> reg[machineId], err |-> NoError]
         ELSE [machine |-> Nil, err |-> StateMachineNotFound]
    ELSE [machine |-> Nil, err |-> StateMachineNotFound]

\* RemoveStateMachine(machineId): the table after the call and the answer
RemoveStateMachineResult(reg, machineId) ==
    IF machineId \in DOMAIN reg
    THEN [reg |-> [m \in DOMAIN reg \ {machineId} |-> reg[m]], ok |-> TRUE]
    ELSE [reg |-> reg, ok |-> FALSE]

\* ----------------------------------------------------------------- actions
\* what a call that is made of several steps keeps of the state it began in
NoBefore == [stateMap |-> <<>>, ready |-> FALSE, id |-> "", registry |-> <<>>,
             peer |-> [id |-> "", ready |-> FALSE]]
\* The call the caller is in or has the result of. While the call runs, pc is
\* the statement it executes next ("" once it has returned), i the iteration
\* of its loop, source and target the states of that iteration (sourceState
\* and targetState in Perform), transType the type given to
\* AddParallelTransitions, and before the state the call began in.
NoCall == [op |-> "none", state |-> Nil, event |-> Nil, ctx |-> [Amount |-> 0, Flaky |-> FALSE],
           ret |-> Nil, rets |-> <<>>, ok |-> FALSE, err |-> NoError, log |-> <<>>,
           builder |-> Nil, machineId |-> "", machine |-> Nil, type |-> Nil,
           formats |-> <<>>, orders |-> <<>>, text |-> "",
           pc |-> "", i |-> 0, source |-> Nil, target |-> Nil, transType |-> External,
           before |-> NoBefore]

\* The goroutines that call the machine concurrently.
Threads == {"t1", "t2"}
\* a goroutine that is in no call. In a call, the record is the frame of the
\* function the goroutine is executing: callers holds the frame of the function
\* that called it (none for a call the goroutine makes itself), builder the
\* builder Build is called on, machine the machine given to or returned by a
\* registry function, type the instantiation GetStateMachine is called at, and
\* fresh tells whether the identifier given to Build was unregistered when the
\* call began. In Perform, local is the list AddTransition has read from the
\* map, peers names for each element of that list the Perform call in progress
\* it belongs to (Nil for an element of a call that has returned), and
\* slot the position of the transition the call has appended in the list of
\* its (state, event): 0 before the append and when a later write of the list
\* has dropped the transition. In GenerateDiagram, formats are the formats
\* asked for and seen the graphs its generators have rendered so far
IdleThread == [pc |-> "idle", op |-> "none", state |-> Nil, target |-> Nil, event |-> Nil,
               ctx |-> [Amount |-> 0, Flaky |-> FALSE], stage |-> Nil,
               ret |-> Nil, rets |-> <<>>, ok |-> FALSE, err |-> NoError,
               machineId |-> "", callers |-> <<>>, builder |-> Nil, fresh |-> FALSE,
               machine |-> Nil, type |-> Nil,
               local |-> <<>>, peers |-> <<>>, slot |-> 0, formats |-> <<>>, seen |-> <<>>]
\* the function in frame c returns: the goroutine is back in the caller, at the
\* position the caller's frame has recorded, or in no call
ReturnTo(c) == IF c.callers = <<>> THEN IdleThread ELSE c.callers[1]
\* sync.RWMutex: the goroutines holding the read lock, the goroutine holding the
\* write lock, the goroutines blocked in Lock()
UnlockedRWMutex == [readers |-> {}, writer |-> Nil, waiting |-> {}]
\* the machine's mutex (fields readers, writer, waiting) and, in the field
\* registry, the mutex of the global registry; nested holds the goroutines that
\* hold the machine's read lock a second time (all of them are in readers)
Unlocked == [readers |-> {}, writer |-> Nil, waiting |-> {}, registry |-> UnlockedRWMutex,
             nested |-> {}]

\* no transition builder is at hand. A transition builder holds the fields its
\* methods have set (zero values before); step is the method called last on
\* it, and whenForm tells which of When and WhenFunc was called last
NoChain == [kind |-> "none", transitionType |-> External,
            sourceId |-> zeroState, targetId |-> zeroState,
            sourceIds |-> <<>>, targetIds |-> <<>>,
            event |-> zeroEvent, condition |-> Nil, action |-> Nil,
            whenForm |-> "", step |-> ""]

\* no call is outstanding: the caller has taken the last result
Idle == lastCall.op = "none"
\* the call op has returned and the caller has its result
Returned(op) == lastCall.op = op /\ lastCall.pc = ""
\* the state a call begins in
Before == [stateMap |-> stateMap, ready |-> ready, id |-> id, registry |-> registry,
           peer |-> peer]

Init ==
    /\ stateMap = <<>>
    /\ ready = FALSE
    /\ id = ""
    /\ registry = <<>>
    /\ lastCall = NoCall
    /\ chain = NoChain
    /\ peer = [id |-> "", ready |-> FALSE]
    /\ threads = [t \in Threads |-> IdleThread]
    /\ mutex = Unlocked
    /\ held = {}

FireEvent(s, e, p) ==
    /\ Idle
    /\ LET r == FireEventResult(stateMap, ready, s, e, p)
       IN lastCall' = [NoCall EXCEPT !.op = "FireEvent", !.state = s, !.event = e,
                          !.ctx = p, !.ret = r.state, !.err = r.err, !.log = r.env.log]
    /\ UNCHANGED <<stateMap, ready, id, registry, chain, peer, threads, mutex, held>>

FireParallelEvent(s, e, p) ==
    /\ Idle
    /\ LET r == FireParallelEventResult(stateMap, ready, s, e, p)
       IN lastCall' = [NoCall EXCEPT !.op = "FireParallelEvent", !.state = s, !.event = e,
                          !.ctx = p, !.rets = r.states, !.err = r.err, !.log = r.env.log]
    /\ UNCHANGED <<stateMap, ready, id, registry, chain, peer, threads, mutex, held>>

Verify(s, e) ==
    /\ Idle
    /\ lastCall' = [NoCall EXCEPT !.op = "Verify", !.state = s, !.event = e,
                       !.ok = VerifyResult(stateMap, ready, s, e)]
    /\ UNCHANGED <<stateMap, ready, id, registry, chain, peer, threads, mutex, held>>

\* Perform and PerformFunc of the three transition builders, statement by
\* statement. The caller is the only goroutine that uses the machine; the
\* steps of another goroutine come between those of Perform in NextRace.
\* GetState takes and releases the machine's lock, AddTransition and the
\* writes of Condition and Action take none.

\* the identifier of the source state of iteration i of Perform on builder b
PerformSourceId(b, i) ==
    IF b.kind = "MultipleTransitionBuilder" THEN b.sourceIds[i] ELSE b.sourceId
\* the targets of ToAmong taken last to first
PerformTargetIdReversed(b, j) ==
    IF b.kind = "ParallelTransitionBuilder" THEN b.targetIds[Len(b.targetIds) + 1 - j]
    ELSE b.targetId
\* the identifier of the target state of iteration j of Perform on builder b
PerformTargetId(b, j) ==
    IF b.kind = "ParallelTransitionBuilder" THEN b.targetIds[j] ELSE b.targetId

\* Perform returns: the frame c as the caller has it
PerformReturns(b, c) ==
    IF b.kind = "none" THEN NoCall
    ELSE [c EXCEPT !.pc = "", !.i = 0, !.source = Nil, !.target = Nil]
\* Perform that returns after its first transition
PerformNextOnce(b, c) == PerformReturns(b, c)
\* the frame c of Perform on builder b after "transition.Action = b.action":
\* the loop over the sources (MultipleTransitionBuilder) or the targets
\* (ParallelTransitionBuilder) goes on, or Perform returns
PerformNext(b, c) ==
    IF b.kind = "MultipleTransitionBuilder" /\ c.i < Len(b.sourceIds)
    THEN [c EXCEPT !.pc = "GetState.source", !.i = c.i + 1]
    ELSE IF b.kind = "ParallelTransitionBuilder" /\ c.i < Len(b.targetIds)
    THEN [c EXCEPT !.pc = "GetState.target", !.i = c.i + 1]
    ELSE PerformReturns(b, c)

\* Perform is called on a transition builder of the caller's own, whose fields
\* the steps below take as their inputs
Perform ==
    /\ Idle
    /\ chain.kind = "none"
    /\ Cardinality(TransitionKeys(stateMap)) < MaxTransitions
    /\ lastCall' = [NoCall EXCEPT !.op = "Perform", !.pc = "GetState.source", !.i = 1]
    /\ UNCHANGED <<stateMap, ready, id, registry, chain, peer, threads, mutex, held>>

\* "sourceState := b.stateMachine.GetState(b.sourceId)"; ParallelTransitionBuilder
\* with no target returns after it
PerformGetStateSource(sourceId) ==
    /\ lastCall.pc = "GetState.source"
    /\ stateMap' = GetState(stateMap, sourceId)
    /\ lastCall' = IF chain.kind = "ParallelTransitionBuilder" /\ chain.targetIds = <<>>
                   THEN PerformReturns(chain, lastCall)
                   ELSE [lastCall EXCEPT !.source = sourceId, !.pc = "GetState.target"]
    /\ UNCHANGED <<ready, id, registry, chain, peer, threads, mutex, held>>

\* Perform that does not look up the target state
PerformGetStateTargetSkipped(targetId) ==
    /\ lastCall.pc = "GetState.target"
    /\ lastCall' = [lastCall EXCEPT !.target = targetId, !.pc = "AddTransition"]
    /\ UNCHANGED <<stateMap, ready, id, registry, chain, peer, threads, mutex, held>>

\* "targetState := b.stateMachine.GetState(b.targetId)"
PerformGetStateTarget(targetId) ==
    /\ lastCall.pc = "GetState.target"
    /\ stateMap' = GetState(stateMap, targetId)
    /\ lastCall' = [lastCall EXCEPT !.target = targetId, !.pc = "AddTransition"]
    /\ UNCHANGED <<ready, id, registry, chain, peer, threads, mutex, held>>

\* "transition := sourceState.AddTransition(b.event, targetState, b.transitionType)"
PerformAddTransition(transitionType, event) ==
    /\ lastCall.pc = "AddTransition"
    /\ stateMap' = [stateMap EXCEPT ![lastCall.source] =
                       AddTransition(@, event, lastCall.target, transitionType)]
    /\ lastCall' = [lastCall EXCEPT !.event = event, !.pc = "Condition"]
    /\ UNCHANGED <<ready, id, registry, chain, peer, threads, mutex, held>>

\* "transition.Condition = b.condition"
PerformSetCondition(condition) ==
    /\ lastCall.pc = "Condition"
    /\ LET n == Len(stateMap[lastCall.source].eventTransitions[lastCall.event])
       IN stateMap' = [stateMap EXCEPT
             ![lastCall.source].eventTransitions[lastCall.event][n].Condition = condition]
    /\ lastCall' = [lastCall EXCEPT !.pc = "Action"]
    /\ UNCHANGED <<ready, id, registry, chain, peer, threads, mutex, held>>

\* "transition.Action = b.action"; the loop goes on or Perform returns
PerformSetAction(action) ==
    /\ lastCall.pc = "Action"
    /\ LET n == Len(stateMap[lastCall.source].eventTransitions[lastCall.event])
       IN stateMap' = [stateMap EXCEPT
             ![lastCall.source].eventTransitions[lastCall.event][n].Action = action]
    /\ lastCall' = PerformNext(chain, lastCall)
    /\ UNCHANGED <<ready, id, registry, chain, peer, threads, mutex, held>>

\* StateMachineImpl.GetState(stateId), called by the caller itself: it has the
\* state from now on
StateMachineGetState(stateId) ==
    /\ Idle
    /\ stateMap' = GetState(stateMap, stateId)
    /\ UNCHANGED <<ready, id, registry, lastCall, chain, peer, threads, mutex, held>>

\* A caller that has the machine's states from GetState adds transitions to
\* one of them itself: source.AddParallelTransitions(event, targets,
\* transType). The call takes no lock; each turn of its loop is a call of
\* AddTransition. The transitions carry no guard and no effect.
StateAddParallelTransitions(sourceId, event, targetIds, transType) ==
    /\ Idle
    /\ sourceId \in DOMAIN stateMap
    /\ \A j \in DOMAIN targetIds : targetIds[j] \in DOMAIN stateMap
    /\ Cardinality(TransitionKeys(stateMap)) + Len(targetIds) <= MaxTransitions
    /\ lastCall' = IF targetIds = <<>> THEN NoCall
                   ELSE [NoCall EXCEPT !.op = "State.AddParallelTransitions",
                            !.pc = "AddParallelTransitions.loop", !.i = 1,
                            !.source = sourceId, !.event = event, !.rets = targetIds,
                            !.transType = transType]
    /\ UNCHANGED <<stateMap, ready, id, registry, chain, peer, threads, mutex, held>>

\* "transition := s.AddTransition(event, target, transType)" in the loop of
\* State.AddParallelTransitions; after the last target the call returns
StateAddTransition ==
    /\ lastCall.pc = "AddParallelTransitions.loop"
    /\ stateMap' = [stateMap EXCEPT ![lastCall.source] =
                       AddTransition(@, lastCall.event, lastCall.rets[lastCall.i],
                                     lastCall.transType)]
    /\ lastCall' = IF lastCall.i < Len(lastCall.rets)
                   THEN [lastCall EXCEPT !.i = lastCall.i + 1]
                   ELSE NoCall
    /\ UNCHANGED <<ready, id, registry, chain, peer, threads, mutex, held>>

\* StateMachineBuilder.Build(machineId), statement by statement, called while
\* no other goroutine uses the machine or the registry (the steps of two
\* goroutines in Build interleave in NextBuild). The call begins with
\* "b.stateMachine.id = machineId", written without a lock
Build(machineId) ==
    /\ Idle
    /\ id' = machineId
    /\ lastCall' = [NoCall EXCEPT !.op = "Build", !.builder = "sm",
                       !.machineId = machineId, !.pc = "SetReady", !.before = Before]
    /\ UNCHANGED <<stateMap, ready, registry, chain, peer, threads, mutex, held>>

\* Build that goes on to RegisterStateMachine without setting the readiness
BuildReadySkipped ==
    /\ lastCall.pc = "SetReady"
    /\ lastCall' = [lastCall EXCEPT !.pc = "RegisterStateMachine"]
    /\ UNCHANGED <<stateMap, ready, id, registry, chain, peer, threads, mutex, held>>

\* "b.stateMachine.SetReady(true)", under the lock of the builder's machine
BuildReady ==
    /\ lastCall.pc = "SetReady"
    /\ ready' = IF lastCall.builder = "sm" THEN TRUE ELSE ready
    /\ peer' = IF lastCall.builder = "peer" THEN [peer EXCEPT !.ready = TRUE] ELSE peer
    /\ lastCall' = [lastCall EXCEPT !.pc = "RegisterStateMachine"]
    /\ UNCHANGED <<stateMap, id, registry, chain, threads, mutex, held>>

\* "err := RegisterStateMachine(machineId, b.stateMachine)", under the lock of
\* the registry, and the return of the machine or of the error
BuildRegister ==
    /\ lastCall.pc = "RegisterStateMachine"
    /\ LET r == RegisterStateMachineResult(registry, lastCall.machineId, lastCall.builder)
       IN /\ registry' = r.reg
          /\ lastCall' = IF r.err # NoError
                         THEN [lastCall EXCEPT !.pc = "", !.err = r.err]
                         ELSE [lastCall EXCEPT !.pc = "", !.machine = lastCall.builder,
                                               !.ok = TRUE]
          /\ held' = IF r.err # NoError THEN held ELSE held \cup {lastCall.builder}
    /\ UNCHANGED <<stateMap, ready, id, chain, peer, threads, mutex>>

\* the caller takes the result of the call that returned
Return ==
    /\ ~Idle
    /\ lastCall.pc = ""
    /\ lastCall' = NoCall
    /\ UNCHANGED <<stateMap, ready, id, registry, chain, peer, threads, mutex, held>>

Next ==
    \/ Perform
    \/ \E s \in StateIds : PerformGetStateSource(s)
    \/ \E t \in StateIds : PerformGetStateTarget(t)
    \/ \E tt \in TransitionTypes, e \in Events : PerformAddTransition(tt, e)
    \/ \E c \in Conditions : PerformSetCondition(c)
    \/ \E a \in Actions : PerformSetAction(a)
    \/ \E m \in MachineIds : Build(m)
    \/ BuildReady
    \/ BuildRegister
    \/ \E s \in StateIds, e \in Events, p \in Contexts : FireEvent(s, e, p)
    \/ \E s \in StateIds, e \in Events, p \in Contexts : FireParallelEvent(s, e, p)
    \/ \E s \in StateIds, e \in Events : Verify(s, e)
    \/ Return

Spec == Init /\ [][Next]_vars

\* The builder registers transitions out of state "A" only: every transition
\* list a call resolves is the list of ("A", e), and "B" is in the state table
\* once a transition names it as its target.
NextFire ==
    \/ Perform
    \/ PerformGetStateSource("A")
    \/ \E t \in StateIds : PerformGetStateTarget(t)
    \/ \E tt \in TransitionTypes, e \in Events : PerformAddTransition(tt, e)
    \/ \E c \in Conditions : PerformSetCondition(c)
    \/ \E a \in Actions : PerformSetAction(a)
    \/ \E m \in MachineIds : Build(m)
    \/ BuildReady
    \/ BuildRegister
    \/ \E s \in StateIds, e \in Events, p \in Contexts : FireEvent(s, e, p)
    \/ \E s \in StateIds, e \in Events, p \in Contexts : FireParallelEvent(s, e, p)
    \/ \E s \in StateIds, e \in Events : Verify(s, e)
    \/ Return

SpecFire == Init /\ [][NextFire]_vars

\* the transitions of (stateId, event) in the graph sm; none when the state is unknown
TransitionsOf(sm, stateId, event) ==
    IF stateId \in DOMAIN sm THEN GetEventTransitions(sm[stateId], event) ELSE <<>>
\* how many of the first i entries of the list L are x
Occurrences(L, x, i) == Cardinality({j \in 1..i : L[j] = x})
\* positions of the effect executions / guard evaluations in a call trace
ExecsIn(log) == {k \in 1..Len(log) : log[k].kind = "exec"}
GuardsIn(log) == {k \in 1..Len(log) : log[k].kind = "guard"}

\* ------------------------------------------------------ fluent builder chains
\* The calls of a chain are made by one goroutine while no other goroutine
\* uses the machine; Perform runs through the steps PerformGetStateSource ..
\* PerformSetAction, once for each transition the chain describes.
\* The effects Perform is called with in a chain.
ChainActions == {"Ok"}
\* The payloads the machine is fired with between two chains: those on which a
\* guard answers the same at every evaluation.
ChainContexts == {p \in Contexts : ~p.Flaky}

\* StateMachineBuilder.ExternalTransition()
ExternalTransition ==
    /\ Idle
    /\ chain' = [NoChain EXCEPT !.kind = "TransitionBuilder", !.transitionType = External]
    /\ UNCHANGED <<stateMap, ready, id, registry, lastCall, peer, threads, mutex, held>>

\* StateMachineBuilder.ExternalTransitions()
ExternalTransitions ==
    /\ Idle
    /\ chain' = [NoChain EXCEPT !.kind = "MultipleTransitionBuilder",
                                !.transitionType = External]
    /\ UNCHANGED <<stateMap, ready, id, registry, lastCall, peer, threads, mutex, held>>

\* StateMachineBuilder.ExternalParallelTransition()
ExternalParallelTransition ==
    /\ Idle
    /\ chain' = [NoChain EXCEPT !.kind = "ParallelTransitionBuilder",
                                !.transitionType = External]
    /\ UNCHANGED <<stateMap, ready, id, registry, lastCall, peer, threads, mutex, held>>

\* From that adds its state to the graph when it is called
FromEager(state) ==
    /\ Idle
    /\ chain.kind \in {"TransitionBuilder", "ParallelTransitionBuilder"}
    /\ chain.step = ""
    /\ chain' = [chain EXCEPT !.sourceId = state, !.step = "From"]
    /\ stateMap' = GetState(stateMap, state)
    /\ UNCHANGED <<ready, id, registry, lastCall, peer, threads, mutex, held>>

\* TransitionBuilder.From(state), ParallelTransitionBuilder.From(state);
\* the caller writes the chain in the order From, To, On, When, Perform, of
\* which it may leave out On and When
From(state) ==
    /\ Idle
    /\ chain.kind \in {"TransitionBuilder", "ParallelTransitionBuilder"}
    /\ chain.step = ""
    /\ chain' = [chain EXCEPT !.sourceId = state, !.step = "From"]
    /\ UNCHANGED <<stateMap, ready, id, registry, lastCall, peer, threads, mutex, held>>

\* MultipleTransitionBuilder.FromAmong(states...)
FromAmong(states) ==
    /\ Idle
    /\ chain.kind = "MultipleTransitionBuilder"
    /\ chain.step = ""
    /\ chain' = [chain EXCEPT !.sourceIds = states, !.step = "From"]
    /\ UNCHANGED <<stateMap, ready, id, registry, lastCall, peer, threads, mutex, held>>

\* TransitionBuilder.To(state), MultipleTransitionBuilder.To(state)
To(state) ==
    /\ Idle
    /\ chain.kind \in {"TransitionBuilder", "MultipleTransitionBuilder"}
    /\ chain.step = "From"
    /\ chain' = [chain EXCEPT !.targetId = state, !.step = "To"]
    /\ UNCHANGED <<stateMap, ready, id, registry, lastCall, peer, threads, mutex, held>>

\* ParallelTransitionBuilder.ToAmong(states...)
ToAmong(states) ==
    /\ Idle
    /\ chain.kind = "ParallelTransitionBuilder"
    /\ chain.step = "From"
    /\ chain' = [chain EXCEPT !.targetIds = states, !.step = "To"]
    /\ UNCHANGED <<stateMap, ready, id, registry, lastCall, peer, threads, mutex, held>>

\* On(event) of the three transition builders
On(event) ==
    /\ Idle
    /\ chain.step = "To"
    /\ chain' = [chain EXCEPT !.event = event, !.step = "On"]
    /\ UNCHANGED <<stateMap, ready, id, registry, lastCall, peer, threads, mutex, held>>

\* When(condition) of the three transition builders
When(condition) ==
    /\ Idle
    /\ chain.step \in {"To", "On", "When"}
    /\ chain' = [chain EXCEPT !.condition = condition, !.whenForm = "When",
                              !.step = "When"]
    /\ UNCHANGED <<stateMap, ready, id, registry, lastCall, peer, threads, mutex, held>>

\* WhenFunc that leaves a condition given with When in place
WhenFuncYieldsToWhen(conditionFunc) ==
    /\ Idle
    /\ chain.step \in {"To", "On", "When"}
    /\ chain' = [chain EXCEPT
                    !.condition = IF chain.whenForm = "When" THEN @
                                  ELSE ConditionFunc(conditionFunc),
                    !.whenForm = "WhenFunc", !.step = "When"]
    /\ UNCHANGED <<stateMap, ready, id, registry, lastCall, peer, threads, mutex, held>>

\* WhenFunc(conditionFunc) of the three transition builders
WhenFunc(conditionFunc) ==
    /\ Idle
    /\ chain.step \in {"To", "On", "When"}
    /\ chain' = [chain EXCEPT !.condition = ConditionFunc(conditionFunc),
                              !.whenForm = "WhenFunc", !.step = "When"]
    /\ UNCHANGED <<stateMap, ready, id, registry, lastCall, peer, threads, mutex, held>>

\* the builder's fields are set as far as the chain sets them: Perform may be
\* called, a second time too, since the builder keeps its fields
CanPerform == chain.step \in {"To", "On", "When", "Perform"}

\* the frame of Perform or PerformFunc (op) on the builder at hand when the
\* call has stored its argument in b.action: the call returns at once when
\* FromAmong has listed no source, and else looks up its first source state
PerformFrame(op) ==
    LET c == [NoCall EXCEPT !.op = op, !.state = chain.sourceId, !.ret = chain.targetId,
                            !.event = chain.event, !.before = Before,
                            !.rets = IF chain.kind = "MultipleTransitionBuilder"
                                     THEN chain.sourceIds
                                     ELSE IF chain.kind = "ParallelTransitionBuilder"
                                     THEN chain.targetIds
                                     ELSE <<>>]
    IN IF chain.kind = "MultipleTransitionBuilder" /\ chain.sourceIds = <<>>
       THEN c
       ELSE [c EXCEPT !.pc = "GetState.source", !.i = 1]

\* TransitionBuilder.Perform(action): "b.action = action"
TransitionBuilderPerform(action) ==
    /\ Idle
    /\ chain.kind = "TransitionBuilder" /\ CanPerform
    /\ Cardinality(TransitionKeys(stateMap)) + 1 <= MaxTransitions
    /\ chain' = [chain EXCEPT !.action = action, !.step = "Perform"]
    /\ lastCall' = PerformFrame("TransitionBuilder.Perform")
    /\ UNCHANGED <<stateMap, ready, id, registry, peer, threads, mutex, held>>

\* MultipleTransitionBuilder.Perform(action) / PerformFunc(actionFunc):
\* "b.action = action"
MultipleTransitionBuilderPerform(action) ==
    /\ Idle
    /\ chain.kind = "MultipleTransitionBuilder" /\ CanPerform
    /\ Cardinality(TransitionKeys(stateMap)) + Len(chain.sourceIds) <= MaxTransitions
    /\ chain' = [chain EXCEPT !.action = action, !.step = "Perform"]
    /\ lastCall' = [PerformFrame("MultipleTransitionBuilder.Perform") EXCEPT !.state = Nil]
    /\ UNCHANGED <<stateMap, ready, id, registry, peer, threads, mutex, held>>

\* ParallelTransitionBuilder.Perform(action) / PerformFunc(actionFunc):
\* "b.action = action"
ParallelTransitionBuilderPerform(action) ==
    /\ Idle
    /\ chain.kind = "ParallelTransitionBuilder" /\ CanPerform
    /\ Cardinality(TransitionKeys(stateMap)) + Len(chain.targetIds) <= MaxTransitions
    /\ chain' = [chain EXCEPT !.action = action, !.step = "Perform"]
    /\ lastCall' = [PerformFrame("ParallelTransitionBuilder.Perform") EXCEPT !.ret = Nil]
    /\ UNCHANGED <<stateMap, ready, id, registry, peer, threads, mutex, held>>

\* TransitionBuilder.PerformFunc(actionFunc): "b.action = ActionFunc(actionFunc)"
TransitionBuilderPerformFunc(actionFunc) ==
    /\ Idle
    /\ chain.kind = "TransitionBuilder" /\ CanPerform
    /\ Cardinality(TransitionKeys(stateMap)) + 1 <= MaxTransitions
    /\ chain' = [chain EXCEPT !.action = ActionFunc(actionFunc), !.step = "Perform"]
    /\ lastCall' = PerformFrame("TransitionBuilder.PerformFunc")
    /\ UNCHANGED <<stateMap, ready, id, registry, peer, threads, mutex, held>>

\* the step of the Perform call in progress on the builder at hand
PerformStep ==
    \/ lastCall.pc = "GetState.source"
          /\ PerformGetStateSource(PerformSourceId(chain, lastCall.i))
    \/ lastCall.pc = "GetState.target"
          /\ PerformGetStateTarget(PerformTargetId(chain, lastCall.i))
    \/ PerformAddTransition(chain.transitionType, chain.event)
    \/ PerformSetCondition(chain.condition)
    \/ PerformSetAction(chain.action)

\* no chain is half written: no builder is at hand, or Perform has been called
NoStatement == chain.kind = "none" \/ chain.step = "Perform"

\* Calls on the machine are made between two chains, or while a TransitionBuilder
\* chain that has reached On awaits its Perform.
BetweenStatements ==
    \/ NoStatement
    \/ chain.kind = "TransitionBuilder" /\ chain.step = "On"

NextBuilder ==
    \/ ExternalTransition
    \/ ExternalTransitions
    \/ ExternalParallelTransition
    \/ \E s \in StateIds : From(s)
    \/ \E ss \in StateIdLists : FromAmong(ss)
    \/ \E t \in StateIds : To(t)
    \/ \E ts \in StateIdLists : ToAmong(ts)
    \/ \E e \in Events : On(e)
    \/ \E c \in Conditions \ {Nil} : chain.condition = Nil /\ When(c)
    \/ \E a \in ChainActions : TransitionBuilderPerform(a)
    \/ \E a \in ChainActions : MultipleTransitionBuilderPerform(a)
    \/ \E a \in ChainActions : ParallelTransitionBuilderPerform(a)
    \/ PerformStep
    \/ \E m \in MachineIds : BetweenStatements /\ Build(m)
    \/ BuildReady
    \/ BuildRegister
    \/ \E s \in StateIds, e \in ChainEvents, p \in ChainContexts :
          BetweenStatements /\ FireEvent(s, e, p)
    \/ \E s \in StateIds, e \in ChainEvents : BetweenStatements /\ Verify(s, e)
    \/ Return

SpecBuilder == Init /\ [][NextBuilder]_vars

\* ------------------------------------------- interface and function forms
\* The guards given to When, the functions given to WhenFunc, the effects
\* given to Perform and the functions given to PerformFunc; nil is one of each.
FormConditions == {Nil, "AmountPositive"}
FormConditionFuncs == {Nil, "AmountPositive"}
FormActions == {Nil, "Ok"}
FormActionFuncs == {Nil, "Ok"}

\* One builder writing chains From("A").To("B"), with or without On(e), that
\* end in Perform or PerformFunc after any number of When and WhenFunc calls;
\* the machine is called between two chains, from the state the chains
\* register their transitions in.
NextFunc ==
    \/ ExternalTransition
    \/ From("A")
    \/ To("B")
    \/ \E e \in Events : On(e)
    \/ \E c \in FormConditions : When(c)
    \/ \E f \in FormConditionFuncs : WhenFunc(f)
    \/ \E a \in FormActions : TransitionBuilderPerform(a)
    \/ \E g \in FormActionFuncs : TransitionBuilderPerformFunc(g)
    \/ PerformStep
    \/ \E m \in MachineIds : NoStatement /\ Build(m)
    \/ BuildReady
    \/ BuildRegister
    \/ \E e \in ChainEvents, p \in ChainContexts : NoStatement /\ FireEvent("A", e, p)
    \/ \E e \in ChainEvents, p \in ChainContexts :
          NoStatement /\ FireParallelEvent("A", e, p)
    \/ \E e \in ChainEvents : NoStatement /\ Verify("A", e)
    \/ Return

SpecFunc == Init /\ [][NextFunc]_vars

\* ------------------------------------------------------------------ registry
\* Identifiers the registry is called with.
RegistryIds == {"m1", "m2"}
\* the orders in which "for id := range registry.stateMachines" may visit the keys
Orderings(S) == {f \in [1..Cardinality(S) -> S] : {f[i] : i \in 1..Cardinality(S)} = S}

\* RegisterStateMachine(machineId, stateMachine), called with a machine the
\* caller holds, in the table or removed from it
RegisterStateMachine(machineId, machine) ==
    /\ Idle
    /\ machine \in held
    /\ LET r == RegisterStateMachineResult(registry, machineId, machine)
       IN /\ registry' = r.reg
          /\ lastCall' = [NoCall EXCEPT !.op = "RegisterStateMachine",
                             !.machineId = machineId, !.machine = machine, !.err = r.err]
    /\ UNCHANGED <<stateMap, ready, id, chain, peer, threads, mutex, held>>

GetStateMachine(machineId, type) ==
    /\ Idle
    /\ LET r == GetStateMachineResult(registry, machineId, type)
       IN /\ lastCall' = [NoCall EXCEPT !.op = "GetStateMachine", !.machineId = machineId,
                             !.type = type, !.machine = r.machine, !.err = r.err]
          /\ held' = IF r.err # NoError THEN held ELSE held \cup {r.machine}
    /\ UNCHANGED <<stateMap, ready, id, registry, chain, peer, threads, mutex>>

ListStateMachines ==
    /\ Idle
    /\ \E result \in Orderings(DOMAIN registry) :
          lastCall' = [NoCall EXCEPT !.op = "ListStateMachines", !.rets = result]
    /\ UNCHANGED <<stateMap, ready, id, registry, chain, peer, threads, mutex, held>>

RemoveStateMachine(machineId) ==
    /\ Idle
    /\ LET r == RemoveStateMachineResult(registry, machineId)
       IN /\ registry' = r.reg
          /\ lastCall' = [NoCall EXCEPT !.op = "RemoveStateMachine",
                             !.machineId = machineId, !.ok = r.ok]
    /\ UNCHANGED <<stateMap, ready, id, chain, peer, threads, mutex, held>>

\* StateMachineBuilder.Build(machineId) on the second builder: the call begins
\* with "b.stateMachine.id = machineId" and goes on with BuildReady and
\* BuildRegister
PeerBuild(machineId) ==
    /\ Idle
    /\ peer' = [peer EXCEPT !.id = machineId]
    /\ lastCall' = [NoCall EXCEPT !.op = "Build", !.builder = "peer",
                       !.machineId = machineId, !.pc = "SetReady", !.before = Before]
    /\ UNCHANGED <<stateMap, ready, id, registry, chain, threads, mutex, held>>

\* the first builder has registered one transition; nothing is built yet
InitRegistry ==
    /\ stateMap = PerformResult(<<>>, External, "A", "B", "E1", Nil, "Ok")
    /\ ready = FALSE
    /\ id = ""
    /\ registry = <<>>
    /\ lastCall = NoCall
    /\ chain = NoChain
    /\ peer = [id |-> "", ready |-> FALSE]
    /\ threads = [t \in Threads |-> IdleThread]
    /\ mutex = Unlocked
    /\ held = {}

NextRegistry ==
    \/ \E m \in RegistryIds : Build(m)
    \/ \E m \in RegistryIds : PeerBuild(m)
    \/ BuildReady
    \/ BuildRegister
    \/ \E m \in RegistryIds, machine \in Machines : RegisterStateMachine(m, machine)
    \/ \E m \in RegistryIds, type \in MachineTypes : GetStateMachine(m, type)
    \/ ListStateMachines
    \/ \E m \in RegistryIds : RemoveStateMachine(m)
    \/ \E s \in StateIds, e \in Events, p \in Contexts : FireEvent(s, e, p)
    \/ Return

SpecRegistry == InitRegistry /\ [][NextRegistry]_vars

\* ---------------------------------------------------------------- diagrams
\* DiagramFormat; OtherFormat is a value that is none of the three constants
PlantUML == 0
MarkdownTable == 1
MarkdownFlow == 2
OtherFormat == 3
DiagramFormats == {PlantUML, MarkdownTable, MarkdownFlow, OtherFormat}

\* the backquote character of the Markdown output, written as an apostrophe
\* (a string literal cannot hold a backquote)
BQ == "'"

\* the strings of the sequence parts written one after the other
RECURSIVE Concat(_)
Concat(parts) ==
    IF Len(parts) = 0 THEN "" ELSE Head(parts) \o Concat(Tail(parts))

\* "for event, transitions := range state.eventTransitions": the transitions
\* of the state, event by event; events is the order in which the range visits
\* the keys of the map
TransitionsInRangeOrder(state, events) ==
    LET RECURSIVE From_(_)
        From_(k) == IF k > Len(events) THEN <<>>
                    ELSE state.eventTransitions[events[k]] \o From_(k + 1)
    IN From_(1)

\* the orders in which the ranges over the eventTransitions maps of the states
\* of sm may visit the events, one order for each state
EventOrders(sm) ==
    {eo \in [DOMAIN sm -> UNION {Orderings(DOMAIN sm[s].eventTransitions) : s \in DOMAIN sm}] :
        \A s \in DOMAIN sm : eo[s] \in Orderings(DOMAIN sm[s].eventTransitions)}

\* the transitions of the graph in the order in which "range sm.stateMap"
\* visiting the states in the order o and the loops nested in it, visiting the
\* events of state s in the order eo[s], reach them
RECURSIVE TransitionsInOrder(_, _, _, _)
TransitionsInOrder(sm, o, eo, k) ==
    IF k > Len(o) THEN <<>>
    ELSE TransitionsInRangeOrder(sm[o[k]], eo[o[k]]) \o TransitionsInOrder(sm, o, eo, k + 1)

\* StateMachineImpl.ShowStateMachine(); o is the order of "range sm.stateMap",
\* eo the orders of the ranges over the events
ShowStateMachineText(sm, smId, o, eo) ==
    LET T == TransitionsInOrder(sm, o, eo, 1)
    IN "StateMachine(id=" \o smId \o "):\n"
       \o Concat([i \in 1..Len(T) |->
                    "  " \o T[i].Source \o " --" \o T[i].Event \o "("
                    \o (IF T[i].TransType = Internal THEN "INTERNAL" ELSE "EXTERNAL")
                    \o ")--> " \o T[i].Target \o "\n"])

\* generatePlantUML(); o1 and o2 are the orders of its two "range sm.stateMap",
\* eo the orders of the ranges over the events of a state (so in the other two
\* generators)
generatePlantUML(sm, smId, o1, o2, eo) ==
    LET T == TransitionsInOrder(sm, o2, eo, 1)
    IN "@startuml\n"
       \o "title StateMachine: " \o smId \o "\n"
       \o Concat([i \in 1..Len(o1) |->
                    "state \"" \o o1[i] \o "\" as " \o o1[i] \o "\n"])
       \o Concat([i \in 1..Len(T) |->
                    T[i].Source \o " --> " \o T[i].Target \o " : " \o T[i].Event \o "\n"])
       \o "@enduml\n"

\* generateMarkdownTable(); o1 is the order of the states section, o2 the order
\* in which stateIds is collected
generateMarkdownTable(sm, smId, o1, o2, eo) ==
    LET T == TransitionsInOrder(sm, o2, eo, 1)
    IN "# State Machine: " \o smId \o "\n\n"
       \o "## States\n\n"
       \o Concat([i \in 1..Len(o1) |-> "- " \o BQ \o o1[i] \o BQ \o "\n"])
       \o "\n"
       \o "## Transitions\n\n"
       \o "| Source State | Event | Target State | Type |\n"
       \o "|-------------|-------|--------------|------|\n"
       \o Concat([i \in 1..Len(T) |->
                    "| " \o BQ \o T[i].Source \o BQ \o " | " \o BQ \o T[i].Event \o BQ
                    \o " | " \o BQ \o T[i].Target \o BQ \o " | "
                    \o (IF T[i].TransType = Internal THEN "Internal" ELSE "External")
                    \o " |\n"])

\* generateMarkdownFlow(); o1 is the order in which the node ids are given out,
\* o2 the order of the transitions loop
generateMarkdownFlow(sm, smId, o1, o2, eo) ==
    LET T == TransitionsInOrder(sm, o2, eo, 1)
        nodeIds == [s \in DOMAIN sm |->
                      "state_" \o ToString((CHOOSE i \in 1..Len(o1) : o1[i] = s) - 1)]
    IN BQ \o BQ \o BQ \o "mermaid\nflowchart TD\n"
       \o Concat([i \in 1..Len(o1) |->
                    "    " \o nodeIds[o1[i]] \o "[\"" \o o1[i] \o "\"]\n"])
       \o Concat([i \in 1..Len(T) |->
                    "    " \o nodeIds[T[i].Source] \o " -->|" \o T[i].Event \o "| "
                    \o nodeIds[T[i].Target] \o "\n"])
       \o BQ \o BQ \o BQ \o "\n"

\* the switch of GenerateDiagram: one format rendered, with the iteration
\* orders os = <<o1, o2, eo>> of that generator call
RenderFormat(sm, smId, format, os) ==
    CASE format = MarkdownTable -> generateMarkdownTable(sm, smId, os[1], os[2], os[3])
      [] format = MarkdownFlow -> generateMarkdownFlow(sm, smId, os[1], os[2], os[3])
      [] format = PlantUML -> generatePlantUML(sm, smId, os[1], os[2], os[3])
      [] OTHER -> generatePlantUML(sm, smId, os[1], os[2], os[3])

\* GenerateDiagram whose loop writes the separator after every rendering
GenerateDiagramLoopTrailing(result, i, rendering) == result \o rendering \o "\n\n"

\* one turn of the loop "for i, format := range formats" of GenerateDiagram:
\* the text written so far, after the i-th format has been rendered
GenerateDiagramLoop(result, i, rendering) ==
    (IF i > 1 THEN result \o "\n\n" ELSE result) \o rendering

\* The format lists GenerateDiagram is called with.
FormatLists ==
    {<<>>} \cup {<<f>> : f \in DiagramFormats}
    \cup {<<MarkdownTable, PlantUML>>, <<PlantUML, MarkdownFlow>>,
          <<MarkdownFlow, MarkdownTable>>, <<OtherFormat, MarkdownTable>>,
          <<PlantUML, PlantUML>>}

\* each "range sm.stateMap" visits the states in an order of its own, and so
\* each range over the events of a state
ShowStateMachine ==
    /\ Idle
    /\ \E o \in Orderings(DOMAIN stateMap), eo \in EventOrders(stateMap) :
          lastCall' = [NoCall EXCEPT !.op = "ShowStateMachine", !.orders = <<o, eo>>,
                          !.text = ShowStateMachineText(stateMap, id, o, eo)]
    /\ UNCHANGED <<stateMap, ready, id, registry, chain, peer, threads, mutex, held>>

\* StateMachineImpl.GenerateDiagram(formats...) is called. The call takes no
\* lock itself: each generator it calls takes the read lock and releases it
\* (other goroutines come between two generators in NextRace)
GenerateDiagram(formats) ==
    /\ Idle
    /\ lastCall' = [NoCall EXCEPT !.op = "GenerateDiagram", !.formats = formats,
                       !.pc = "generate", !.i = 1]
    /\ UNCHANGED <<stateMap, ready, id, registry, chain, peer, threads, mutex, held>>

\* the generator of the next format runs: generatePlantUML alone when no
\* format was given, and else the generator the switch chooses for the i-th
\* format, its text written behind the text of the formats before it; os are
\* the iteration orders of this generator call. After the last format
\* GenerateDiagram returns
GenerateDiagramGenerate ==
    /\ lastCall.pc = "generate"
    /\ \E os \in Orderings(DOMAIN stateMap) \X Orderings(DOMAIN stateMap)
                    \X EventOrders(stateMap) :
          lastCall' =
             IF Len(lastCall.formats) = 0
             THEN [lastCall EXCEPT !.orders = <<os>>, !.pc = "", !.i = 0,
                      !.text = generatePlantUML(stateMap, id, os[1], os[2], os[3])]
             ELSE [lastCall EXCEPT
                      !.orders = Append(@, os),
                      !.text = GenerateDiagramLoop(@, lastCall.i,
                                  RenderFormat(stateMap, id, lastCall.formats[lastCall.i], os)),
                      !.pc = IF lastCall.i < Len(lastCall.formats) THEN "generate" ELSE "",
                      !.i = IF lastCall.i < Len(lastCall.formats) THEN lastCall.i + 1 ELSE 0]
    /\ UNCHANGED <<stateMap, ready, id, registry, chain, peer, threads, mutex, held>>

\* A builder registers transitions without guard and effect, a caller adds
\* such transitions to the machine's states itself, the builder builds the
\* machine, and the machine is rendered.
NextDiagram ==
    \/ Perform
    \/ \E s \in StateIds : PerformGetStateSource(s)
    \/ \E t \in StateIds : PerformGetStateTarget(t)
    \/ \E tt \in TransitionTypes, e \in ChainEvents : PerformAddTransition(tt, e)
    \/ PerformSetCondition(Nil)
    \/ PerformSetAction(Nil)
    \/ \E s \in StateIds : StateMachineGetState(s)
    \/ \E tt \in TransitionTypes, s \in StateIds, ts \in StateIdLists, e \in ChainEvents :
          StateAddParallelTransitions(s, e, ts, tt)
    \/ StateAddTransition
    \/ \E m \in MachineIds : Build(m)
    \/ BuildReady
    \/ BuildRegister
    \/ ShowStateMachine
    \/ \E fs \in FormatLists : GenerateDiagram(fs)
    \/ GenerateDiagramGenerate
    \/ Return

SpecDiagram == Init /\ [][NextDiagram]_vars

\* --------------------------------------------------------------- concurrency
\* Several goroutines call one built machine; the builder that produced it is
\* still at hand. A call is a sequence of steps; the steps of different
\* goroutines interleave.
DiagramOps == {"ShowStateMachine", "GenerateDiagram"}
ReaderOps == {"FireEvent", "FireParallelEvent", "Verify"} \cup DiagramOps
\* The payload the concurrent firing calls carry.
ConcurrentContexts == {[Amount |-> 1, Flaky |-> FALSE]}

\* RLock of a lock that admits one holder at a time, reader or writer
CanRLockExclusive(m) == m.writer = Nil /\ m.waiting = {} /\ m.readers = {}

\* sync.RWMutex.RLock returns at once: no writer holds the lock and none waits for it
CanRLock(m) == m.writer = Nil /\ m.waiting = {}
\* sync.RWMutex.Lock that does not wait for the readers to leave
CanLockDespiteReaders(m) == m.writer = Nil
\* sync.RWMutex.Lock returns: no reader and no writer holds the lock
CanLock(m) == m.writer = Nil /\ m.readers = {}

\* The format lists the concurrent GenerateDiagram calls carry.
ConcurrentFormatLists == {<<>>, <<MarkdownTable>>, <<PlantUML, MarkdownTable>>}

\* goroutine t enters GenerateDiagram(formats...): it is about to call the
\* generator of the first format, which takes the read lock for itself
CallGenerateDiagram(t, formats) ==
    /\ threads[t].pc = "idle"
    /\ threads' = [threads EXCEPT ![t] = [IdleThread EXCEPT !.pc = "RLock",
                                             !.op = "GenerateDiagram",
                                             !.formats = formats]]
    /\ UNCHANGED <<stateMap, ready, id, registry, lastCall, chain, peer, mutex, held>>

\* goroutine t enters FireEvent, FireParallelEvent, Verify, ShowStateMachine or
\* GenerateDiagram without a format
CallReader(t, op, s, e, p) ==
    /\ threads[t].pc = "idle"
    /\ threads' = [threads EXCEPT ![t] = [IdleThread EXCEPT !.pc = "RLock", !.op = op,
                                             !.state = s, !.event = e, !.ctx = p]]
    /\ UNCHANGED <<stateMap, ready, id, registry, lastCall, chain, peer, mutex, held>>

\* sm.mutex.RLock()
RLock(t) ==
    /\ threads[t].pc = "RLock"
    /\ CanRLock(mutex)
    /\ mutex' = IF t \in mutex.readers
                THEN [mutex EXCEPT !.nested = @ \cup {t}]
                ELSE [mutex EXCEPT !.readers = @ \cup {t}]
    /\ threads' = [threads EXCEPT ![t].pc = "body"]
    /\ UNCHANGED <<stateMap, ready, id, registry, lastCall, chain, peer, held>>

\* The run-time system has detected unsynchronized accesses to a map and ends
\* the process (runtime.fatal): no goroutine takes a step any more.
ConcurrentMapReadAndMapWrite == "fatal error: concurrent map read and map write"
ConcurrentMapIterationAndMapWrite == "fatal error: concurrent map iteration and map write"
ConcurrentMapWrites == "fatal error: concurrent map writes"
Fatal(msg) ==
    [u \in Threads |-> [IdleThread EXCEPT !.pc = "fatal", !.err = [msg |-> msg, cause |-> Nil]]]

\* goroutine u is inside an assignment to the eventTransitions map of state x
\* (State.AddTransition takes no lock)
InMapAssign(u, x) ==
    /\ threads[u].op = "Perform" /\ threads[u].state = x
    /\ threads[u].pc \in {"AddTransition.made", "AddTransition.assigned"}
\* a goroutine other than t is inside an assignment to the map of state x
MapWriteInProgress(t, x) == \E u \in Threads \ {t} : InMapAssign(u, x)

\* the states whose eventTransitions map the body of the call of goroutine t
\* reads: all of them in a rendering, the source state in a firing call or Verify
MapsRead(t) ==
    IF threads[t].op \in DiagramOps THEN DOMAIN stateMap
    ELSE IF ready /\ threads[t].state \in DOMAIN stateMap THEN {threads[t].state}
    ELSE {}

\* An interface value read between the two stores of its assignment has its
\* type word and a nil data word: calling its method dereferences nil, as
\* calling the method of ActionFunc(nil) does.
TornAction == ActionFunc(Nil)

\* A list element that is no transition: the nil (or stray) pointer a reader
\* finds in a slice whose pointer and length it has loaded from two different
\* stores. Dereferencing it panics; the firing loops dereference an element
\* first where they read its Condition, so the element stands in the list as
\* a transition whose guard panics when it is consulted.
NilElement == [Source |-> Nil, Target |-> Nil, Event |-> Nil,
               Condition |-> ConditionFunc(Nil), Action |-> Nil, TransType |-> External]
\* some list of the graph sm holds an element that is no transition
HasNilElement(sm) ==
    \E x \in DOMAIN sm : \E e \in DOMAIN sm[x].eventTransitions :
        \E i \in DOMAIN sm[x].eventTransitions[e] : sm[x].eventTransitions[e][i] = NilElement

\* the positions of a Perform call after its transition is in the list
AppendedPcs == {"SetCondition", "SetAction", "SetAction.data"}
\* the transition the Perform call of frame c appends (&Transition{...} in
\* State.AddTransition)
NewTransition(c) == [Source |-> c.state, Target |-> c.target, Event |-> c.event,
                     Condition |-> Nil, Action |-> Nil, TransType |-> External]

\* the positions of a Perform call at which "s.eventTransitions[event] = ..."
\* stores the three words of the list (pointer, length, capacity) into the
\* map's slot, after mapassign has returned
StorePcs == {"AddTransition.makeStore", "AddTransition.store"}
\* the Perform calls other than that of goroutine t that are storing the list
\* of state x
Storing(t, x) ==
    {u \in Threads \ {t} : /\ threads[u].op = "Perform" /\ threads[u].pc \in StorePcs
                           /\ threads[u].state = x}
\* the list the store of goroutine u writes with the Perform calls in progress
\* that own its elements: the empty list of make, or the list that was read
\* with the call's own transition appended
StoredList(u) ==
    IF threads[u].pc = "AddTransition.makeStore" THEN [list |-> <<>>, owners |-> <<>>]
    ELSE [list |-> Append(threads[u].local, NewTransition(threads[u])),
          owners |-> Append(threads[u].peers, u)]
\* the list of (x, e) as it is in the map, with the owners of its elements
\* among the Perform calls other than that of goroutine t
ListInMap(t, x, e) ==
    LET list == GetEventTransitions(stateMap[x], e)
    IN [list |-> list,
        owners |-> [i \in 1..Len(list) |->
            IF \E u \in Threads \ {t} :
                  /\ threads[u].op = "Perform"
                  /\ threads[u].pc \in AppendedPcs
                  /\ threads[u].state = x /\ threads[u].event = e /\ threads[u].slot = i
            THEN CHOOSE u \in Threads \ {t} :
                  /\ threads[u].op = "Perform"
                  /\ threads[u].pc \in AppendedPcs
                  /\ threads[u].state = x /\ threads[u].event = e /\ threads[u].slot = i
            ELSE Nil]]
\* the pointer of list r loaded with the length n of another list: the
\* elements r has, and beyond them what the memory holds
Torn(r, n) ==
    [list |-> [i \in 1..n |-> IF i <= Len(r.list) THEN r.list[i] ELSE NilElement],
     owners |-> [i \in 1..n |-> IF i <= Len(r.owners) THEN r.owners[i] ELSE Nil]]
\* the lists a load of the list of (x, e) by goroutine t can give: the list in
\* the map, and, while another goroutine is storing that list, the list it
\* stores and the mixtures of the two (the pointer of one with the length of
\* the other)
ListsRead(t, x, e) ==
    LET old == ListInMap(t, x, e)
    IN {old} \cup
       UNION {{StoredList(u), Torn(old, Len(StoredList(u).list)),
               Torn(StoredList(u), Len(old.list))} :
                 u \in {u \in Storing(t, x) : threads[u].event = e}}

\* the graphs the body of the reading call of goroutine t may read: the graph
\* as it is; while another goroutine is between the two stores of
\* "transition.Action = b.action", the graph with that Action half written (a
\* rendering does not read the Action); while another goroutine is storing a
\* list, the graph with each of the lists a load can give
GraphsRead(t) ==
    {stateMap} \cup
    {[stateMap EXCEPT ![threads[u].state].eventTransitions[threads[u].event][threads[u].slot].Action
                          = TornAction] :
        u \in {u \in Threads \ {t} : /\ threads[u].pc = "SetAction.data"
                                      /\ threads[u].slot # 0
                                      /\ threads[t].op \notin DiagramOps}} \cup
    UNION {{[stateMap EXCEPT ![threads[u].state].eventTransitions[threads[u].event] = r.list] :
               r \in ListsRead(t, threads[u].state, threads[u].event)} :
        u \in {u \in Threads \ {t} : threads[u].op = "Perform" /\ threads[u].pc \in StorePcs}}

\* the frame c of a reading call after its body has run on the graph sm, up to
\* the point where the effect of a taken transition starts to run; a generator
\* of GenerateDiagram renders sm (the text is a function of sm and of the
\* iteration orders, and is not recorded). A generator that meets an element
\* that is no transition panics where it reads the element's Source
ReadResult(c, sm) ==
    LET f == FireEventResult(sm, ready, c.state, c.event, c.ctx)
        g == FireParallelEventResult(sm, ready, c.state, c.event, c.ctx)
    IN IF c.op = "FireEvent"
       THEN [c EXCEPT !.ret = f.state, !.err = f.err,
                      !.pc = IF ExecsIn(f.env.log) # {} THEN "effect" ELSE "RUnlock"]
       ELSE IF c.op = "FireParallelEvent"
       THEN [c EXCEPT !.rets = g.states, !.err = g.err,
                      !.pc = IF ExecsIn(g.env.log) # {} THEN "effect" ELSE "RUnlock"]
       ELSE IF c.op = "Verify"
       THEN [c EXCEPT !.ok = VerifyResult(sm, ready, c.state, c.event), !.pc = "RUnlock"]
       ELSE IF HasNilElement(sm)
       THEN [c EXCEPT !.err = Panic, !.pc = "RUnlock"]
       ELSE IF c.op = "GenerateDiagram"
       THEN [c EXCEPT !.seen = Append(@, sm), !.pc = "RUnlock"]
       ELSE [c EXCEPT !.pc = "RUnlock"]

\* ReadBody in which a FireEvent that takes a transition leaves the machine
\* not ready
ReadBodyConsuming(t) ==
    /\ threads[t].pc = "body"
    /\ \/ \E sm \in GraphsRead(t) :
             /\ threads' = [threads EXCEPT ![t] = ReadResult(threads[t], sm)]
             /\ ready' = (ready /\ ~(threads[t].op = "FireEvent"
                                      /\ ReadResult(threads[t], sm).err = NoError))
       \/ /\ \E x \in MapsRead(t) : MapWriteInProgress(t, x)
          /\ threads' = Fatal(IF threads[t].op \in DiagramOps
                              THEN ConcurrentMapIterationAndMapWrite
                              ELSE ConcurrentMapReadAndMapWrite)
          /\ ready' = ready
    /\ UNCHANGED <<stateMap, id, registry, lastCall, chain, peer, mutex, held>>

\* ReadBody in which rendering marks the machine as not ready
ReadBodyRenderingResets(t) ==
    /\ threads[t].pc = "body"
    /\ \/ \E sm \in GraphsRead(t) :
             threads' = [threads EXCEPT ![t] = ReadResult(threads[t], sm)]
       \/ /\ \E x \in MapsRead(t) : MapWriteInProgress(t, x)
          /\ threads' = Fatal(IF threads[t].op \in DiagramOps
                              THEN ConcurrentMapIterationAndMapWrite
                              ELSE ConcurrentMapReadAndMapWrite)
    /\ ready' = (ready /\ threads[t].op \notin DiagramOps)
    /\ UNCHANGED <<stateMap, id, registry, lastCall, chain, peer, mutex, held>>

\* the body of the call under the read lock. The maps it reads are written by
\* AddTransition without a lock: a read that meets a write in progress sees the
\* map as it was, or ends the process; a load of a list that meets the store
\* of that list gives one of ListsRead
ReadBody(t) ==
    /\ threads[t].pc = "body"
    /\ \/ \E sm \in GraphsRead(t) :
             threads' = [threads EXCEPT ![t] = ReadResult(threads[t], sm)]
       \/ /\ \E x \in MapsRead(t) : MapWriteInProgress(t, x)
          /\ threads' = Fatal(IF threads[t].op \in DiagramOps
                              THEN ConcurrentMapIterationAndMapWrite
                              ELSE ConcurrentMapReadAndMapWrite)
    /\ UNCHANGED <<stateMap, ready, id, registry, lastCall, chain, peer, mutex, held>>

\* the effect (Action.Execute) that was running under the read lock returns
EffectReturns(t) ==
    /\ threads[t].pc = "effect"
    /\ threads' = [threads EXCEPT ![t].pc = "RUnlock"]
    /\ UNCHANGED <<stateMap, ready, id, registry, lastCall, chain, peer, mutex, held>>

\* defer sm.mutex.RUnlock(): the call returns; in GenerateDiagram the
\* generator returns, and the loop calls the generator of the next format
\* (a generator that panics ends GenerateDiagram)
RUnlock(t) ==
    /\ threads[t].pc = "RUnlock"
    /\ mutex' = IF t \in mutex.nested
                THEN [mutex EXCEPT !.nested = @ \ {t}]
                ELSE [mutex EXCEPT !.readers = @ \ {t}]
    /\ threads' = [threads EXCEPT ![t] =
                      IF Len(threads[t].seen) < Len(threads[t].formats)
                         /\ threads[t].err # Panic
                      THEN [threads[t] EXCEPT !.pc = "RLock"]
                      ELSE ReturnTo(threads[t])]
    /\ UNCHANGED <<stateMap, ready, id, registry, lastCall, chain, peer, held>>

\* the Perform calls in progress that have not appended their transition yet
InProgress == Cardinality({t \in Threads : threads[t].op = "Perform"
                                            /\ threads[t].pc \notin AppendedPcs})

\* goroutine t enters TransitionBuilder.Perform of an external chain
\* From(s).To(target).On(e); it is about to call GetState(sourceId)
CallPerform(t, s, target, e) ==
    /\ threads[t].pc = "idle"
    /\ Cardinality(TransitionKeys(stateMap)) + InProgress < MaxTransitions
    /\ threads' = [threads EXCEPT ![t] = [IdleThread EXCEPT !.pc = "Lock", !.op = "Perform",
                                             !.state = s, !.target = target, !.event = e,
                                             !.stage = "source"]]
    /\ UNCHANGED <<stateMap, ready, id, registry, lastCall, chain, peer, mutex, held>>

\* goroutine t enters SetReady(b)
CallSetReady(t, b) ==
    /\ threads[t].pc = "idle"
    /\ threads' = [threads EXCEPT ![t] = [IdleThread EXCEPT !.pc = "Lock", !.op = "SetReady",
                                             !.ok = b]]
    /\ UNCHANGED <<stateMap, ready, id, registry, lastCall, chain, peer, mutex, held>>

\* The state identifiers GetState is called with: those of the graph and one
\* that no transition names.
GetStateIds == StateIds \cup {"C"}

\* goroutine t enters GetState(s)
CallGetState(t, s) ==
    /\ threads[t].pc = "idle"
    /\ threads' = [threads EXCEPT ![t] = [IdleThread EXCEPT !.pc = "Lock", !.op = "GetState",
                                             !.state = s]]
    /\ UNCHANGED <<stateMap, ready, id, registry, lastCall, chain, peer, mutex, held>>

\* GetState, SetReady: sm.mutex.Lock() is called; the goroutine waits for the
\* lock, and readers that arrive from now on wait behind it
Lock(t) ==
    /\ threads[t].pc = "Lock"
    /\ mutex' = [mutex EXCEPT !.waiting = @ \cup {t}]
    /\ threads' = [threads EXCEPT ![t].pc = "LockWait"]
    /\ UNCHANGED <<stateMap, ready, id, registry, lastCall, chain, peer, held>>

\* GetState, SetReady: sm.mutex.Lock() returns
LockAcquired(t) ==
    /\ threads[t].pc = "LockWait"
    /\ CanLock(mutex)
    /\ mutex' = [mutex EXCEPT !.writer = t, !.waiting = @ \ {t}]
    /\ threads' = [threads EXCEPT ![t].pc =
                      IF threads[t].op = "SetReady" THEN "SetReady" ELSE "GetState"]
    /\ UNCHANGED <<stateMap, ready, id, registry, lastCall, chain, peer, held>>

\* GetState under the write lock: look the state up, create it when it is
\* missing, unlock. In Perform: after the source state the target state, then
\* AddTransition
GetStateUnderLock(t) ==
    /\ threads[t].pc = "GetState"
    /\ LET c == threads[t]
           stateId == IF c.op = "GetState" \/ c.stage = "source" THEN c.state ELSE c.target
       IN /\ stateMap' = GetState(stateMap, stateId)
          /\ threads' = [threads EXCEPT ![t] =
                IF c.op = "GetState"
                THEN ReturnTo(c)
                ELSE IF c.stage = "source"
                THEN [c EXCEPT !.pc = "Lock", !.stage = "target"]
                ELSE [c EXCEPT !.pc = "AddTransition", !.stage = Nil]]
    /\ mutex' = [mutex EXCEPT !.writer = Nil]
    /\ UNCHANGED <<ready, id, registry, lastCall, chain, peer, held>>

\* SetReady under the write lock: sm.ready = ready, unlock
SetReadyUnderLock(t) ==
    /\ threads[t].pc = "SetReady"
    /\ ready' = threads[t].ok
    /\ mutex' = [mutex EXCEPT !.writer = Nil]
    /\ threads' = [threads EXCEPT ![t] = ReturnTo(threads[t])]
    /\ UNCHANGED <<stateMap, id, registry, lastCall, chain, peer, held>>

\* sourceState.AddTransition(event, targetState, transitionType) takes no lock.
\* Its accesses to the map s.eventTransitions are steps of their own: the
\* lookup "_, ok := s.eventTransitions[event]", the assignment of an empty
\* list when the key is missing, the read of the list, and the assignment of
\* the list with the transition appended. An assignment to a map starts and
\* ends (the run-time system marks the map as being written in between); an
\* access that meets an assignment in progress is detected by the run-time
\* system, which ends the process, or is not.

\* the lookup of the event in the map
AddTransitionUnlocked(t) ==
    /\ threads[t].pc = "AddTransition"
    /\ LET c == threads[t]
       IN \/ threads' = [threads EXCEPT ![t].pc =
                            IF c.event \in DOMAIN stateMap[c.state].eventTransitions
                            THEN "AddTransition.read" ELSE "AddTransition.make"]
          \/ /\ MapWriteInProgress(t, c.state)
             /\ threads' = Fatal(ConcurrentMapReadAndMapWrite)
    /\ UNCHANGED <<stateMap, ready, id, registry, lastCall, chain, peer, mutex, held>>

\* an assignment to the map starts: "s.eventTransitions[event] = make(...)" or
\* "s.eventTransitions[event] = append(...)"
AddTransitionAssign(t) ==
    /\ threads[t].pc \in {"AddTransition.make", "AddTransition.assign"}
    /\ LET c == threads[t]
       IN \/ threads' = [threads EXCEPT ![t].pc =
                            IF c.pc = "AddTransition.make" THEN "AddTransition.made"
                            ELSE "AddTransition.assigned"]
          \/ /\ MapWriteInProgress(t, c.state)
             /\ threads' = Fatal(ConcurrentMapWrites)
    /\ UNCHANGED <<stateMap, ready, id, registry, lastCall, chain, peer, mutex, held>>

\* the Perform calls other than that of goroutine t that have appended a
\* transition to the list of (x, e) which is still in the list
AppendedTo(t, x, e) ==
    {u \in Threads \ {t} : /\ threads[u].op = "Perform" /\ threads[u].pc \in AppendedPcs
                           /\ threads[u].state = x /\ threads[u].event = e
                           /\ threads[u].slot # 0}

\* mapassign of "s.eventTransitions[event] = make([]*Transition, 0)" returns
\* the slot of the key: a key that was missing is in the map now, with the
\* zero value (a nil list)
AddTransitionMade(t) ==
    /\ threads[t].pc = "AddTransition.made"
    /\ LET c == threads[t]
       IN /\ stateMap' = [stateMap EXCEPT ![c.state].eventTransitions =
                [e \in DOMAIN stateMap[c.state].eventTransitions \cup {c.event} |->
                    GetEventTransitions(stateMap[c.state], e)]]
          /\ \/ threads' = [threads EXCEPT ![t].pc = "AddTransition.makeStore"]
             \/ /\ MapWriteInProgress(t, c.state)
                /\ threads' = Fatal(ConcurrentMapWrites)
    /\ UNCHANGED <<ready, id, registry, lastCall, chain, peer, mutex, held>>

\* the read of the list in "append(s.eventTransitions[event], transition)".
\* The list holds pointers: the frame keeps, beside the elements, the Perform
\* calls in progress they belong to, which have not finished writing them
AddTransitionRead(t) ==
    /\ threads[t].pc = "AddTransition.read"
    /\ LET c == threads[t]
       IN \/ \E r \in ListsRead(t, c.state, c.event) :
                threads' = [threads EXCEPT ![t] =
                   [c EXCEPT !.pc = "AddTransition.assign",
                             !.local = r.list, !.peers = r.owners]]
          \/ /\ MapWriteInProgress(t, c.state)
             /\ threads' = Fatal(ConcurrentMapReadAndMapWrite)
    /\ UNCHANGED <<stateMap, ready, id, registry, lastCall, chain, peer, mutex, held>>

\* mapassign of "s.eventTransitions[event] = append(...)" returns the slot of
\* the key
AddTransitionAssigned(t) ==
    /\ threads[t].pc = "AddTransition.assigned"
    /\ \/ threads' = [threads EXCEPT ![t].pc = "AddTransition.store"]
       \/ /\ MapWriteInProgress(t, threads[t].state)
          /\ threads' = Fatal(ConcurrentMapWrites)
    /\ UNCHANGED <<stateMap, ready, id, registry, lastCall, chain, peer, mutex, held>>

\* the position of goroutine u in the list of owners, 0 when it is not there
PositionOf(u, owners) ==
    IF \E i \in DOMAIN owners : owners[i] = u
    THEN CHOOSE i \in DOMAIN owners : owners[i] = u
    ELSE 0

\* the list is stored into the slot: the key maps to the empty list of make,
\* or to the list that was read with the transition appended. A transition
\* another call has appended is in the list when this call has read it, at the
\* position it was read at, and is in the list no more when it has not
AddTransitionStore(t) ==
    /\ threads[t].pc \in StorePcs
    /\ LET c == threads[t]
           new == StoredList(t)
       IN /\ stateMap' = [stateMap EXCEPT ![c.state].eventTransitions[c.event] = new.list]
          /\ threads' = [u \in Threads |->
                IF u = t
                THEN IF c.pc = "AddTransition.makeStore"
                     THEN [c EXCEPT !.pc = "AddTransition.read"]
                     ELSE [c EXCEPT !.pc = "SetCondition", !.slot = Len(new.list),
                                    !.local = <<>>, !.peers = <<>>]
                ELSE IF /\ threads[u].op = "Perform" /\ threads[u].pc \in AppendedPcs
                        /\ threads[u].state = c.state /\ threads[u].event = c.event
                THEN [threads[u] EXCEPT !.slot = PositionOf(u, new.owners)]
                ELSE threads[u]]
    /\ UNCHANGED <<ready, id, registry, lastCall, chain, peer, mutex, held>>

\* the lists the other Perform calls have read, after goroutine t has written
\* the value v to the field f of its transition (they hold a pointer to it);
\* done tells that Perform returns with this write
Written(t, f, v, done) ==
    [u \in Threads |->
        IF u = t THEN threads[u]
        ELSE [threads[u] EXCEPT
                !.local = [i \in DOMAIN threads[u].local |->
                    IF threads[u].peers[i] = t
                    THEN [g \in DOMAIN threads[u].local[i] |->
                             IF g = f THEN v ELSE threads[u].local[i][g]]
                    ELSE threads[u].local[i]],
                !.peers = [i \in DOMAIN threads[u].peers |->
                    IF done /\ threads[u].peers[i] = t THEN Nil ELSE threads[u].peers[i]]]]

\* "transition.Condition = b.condition", no lock taken; the chain has no guard
SetCondition(t) ==
    /\ threads[t].pc = "SetCondition"
    /\ LET c == threads[t]
       IN stateMap' = IF c.slot = 0 THEN stateMap
                      ELSE [stateMap EXCEPT
                               ![c.state].eventTransitions[c.event][c.slot].Condition = Nil]
    /\ threads' = [Written(t, "Condition", Nil, FALSE) EXCEPT ![t].pc = "SetAction"]
    /\ UNCHANGED <<ready, id, registry, lastCall, chain, peer, mutex, held>>

\* "transition.Action = b.action", no lock taken: the first of the two stores
\* of the interface value; the effect of the chain is Ok
SetAction(t) ==
    /\ threads[t].pc = "SetAction"
    /\ threads' = [threads EXCEPT ![t].pc = "SetAction.data"]
    /\ UNCHANGED <<stateMap, ready, id, registry, lastCall, chain, peer, mutex, held>>

\* the second store of "transition.Action = b.action"; Perform returns
SetActionData(t) ==
    /\ threads[t].pc = "SetAction.data"
    /\ LET c == threads[t]
       IN stateMap' = IF c.slot = 0 THEN stateMap
                      ELSE [stateMap EXCEPT
                               ![c.state].eventTransitions[c.event][c.slot].Action = "Ok"]
    /\ threads' = [Written(t, "Action", "Ok", TRUE) EXCEPT ![t] = IdleThread]
    /\ UNCHANGED <<ready, id, registry, lastCall, chain, peer, mutex, held>>

\* The registry functions goroutines call, and the identifier they pass.
RegistryReaderOps == {"GetStateMachine", "ListStateMachines"}
RegistryWriterOps == {"RegisterStateMachine", "RemoveStateMachine"}
ConcurrentRegistryIds == {"m1"}

\* goroutine t enters a registry function; the machine passed to
\* RegisterStateMachine is the built machine, and GetStateMachine is called at
\* the instantiation of that machine
CallRegistry(t, op, machineId) ==
    /\ threads[t].pc = "idle"
    /\ threads' = [threads EXCEPT ![t] = [IdleThread EXCEPT !.pc = "RegistryLock", !.op = op,
                                             !.machineId = machineId, !.machine = "sm",
                                             !.type = MachineType("sm")]]
    /\ UNCHANGED <<stateMap, ready, id, registry, lastCall, chain, peer, mutex, held>>

\* GetStateMachine, ListStateMachines: registry.mutex.RLock()
RegistryRLock(t) ==
    /\ threads[t].pc = "RegistryLock" /\ threads[t].op \in RegistryReaderOps
    /\ CanRLock(mutex.registry)
    /\ mutex' = [mutex EXCEPT !.registry.readers = @ \cup {t}]
    /\ threads' = [threads EXCEPT ![t].pc = "RegistryBody"]
    /\ UNCHANGED <<stateMap, ready, id, registry, lastCall, chain, peer, held>>

\* RegisterStateMachine, RemoveStateMachine: registry.mutex.Lock() is called
RegistryLock(t) ==
    /\ threads[t].pc = "RegistryLock" /\ threads[t].op \in RegistryWriterOps
    /\ mutex' = [mutex EXCEPT !.registry.waiting = @ \cup {t}]
    /\ threads' = [threads EXCEPT ![t].pc = "RegistryLockWait"]
    /\ UNCHANGED <<stateMap, ready, id, registry, lastCall, chain, peer, held>>

\* RegisterStateMachine, RemoveStateMachine: registry.mutex.Lock() returns
RegistryLockAcquired(t) ==
    /\ threads[t].pc = "RegistryLockWait"
    /\ CanLock(mutex.registry)
    /\ mutex' = [mutex EXCEPT !.registry.writer = t, !.registry.waiting = @ \ {t}]
    /\ threads' = [threads EXCEPT ![t].pc = "RegistryBody"]
    /\ UNCHANGED <<stateMap, ready, id, registry, lastCall, chain, peer, held>>

\* a registry function that reads the machine's readiness under the machine's
\* read lock while it holds the registry lock
RegistryBodyLocksMachine(t) ==
    /\ threads[t].pc = "RegistryBody"
    /\ CanRLock(mutex)
    /\ LET c == threads[t]
           reg == RegisterStateMachineResult(registry, c.machineId, c.machine)
           get == GetStateMachineResult(registry, c.machineId, c.type)
       IN /\ registry' =
                IF c.op = "RegisterStateMachine" THEN reg.reg
                ELSE IF c.op = "RemoveStateMachine"
                THEN RemoveStateMachineResult(registry, c.machineId).reg
                ELSE registry
          /\ threads' = [threads EXCEPT ![t] =
                IF c.callers = <<>> THEN IdleThread
                ELSE IF c.op = "RegisterStateMachine"
                THEN [c.callers[1] EXCEPT !.err = reg.err]
                ELSE IF c.op = "GetStateMachine"
                THEN [c.callers[1] EXCEPT !.err = get.err, !.machine = get.machine]
                ELSE c.callers[1]]
    /\ mutex' = [mutex EXCEPT !.registry.readers = @ \ {t},
                              !.registry.writer = IF @ = t THEN Nil ELSE @]
    /\ UNCHANGED <<stateMap, ready, id, lastCall, chain, peer, held>>

\* the body of the registry function under the registry lock, the deferred
\* unlock and the return of its results to the caller
RegistryBody(t) ==
    /\ threads[t].pc = "RegistryBody"
    /\ LET c == threads[t]
           reg == RegisterStateMachineResult(registry, c.machineId, c.machine)
           get == GetStateMachineResult(registry, c.machineId, c.type)
       IN /\ registry' =
                IF c.op = "RegisterStateMachine" THEN reg.reg
                ELSE IF c.op = "RemoveStateMachine"
                THEN RemoveStateMachineResult(registry, c.machineId).reg
                ELSE registry
          /\ threads' = [threads EXCEPT ![t] =
                IF c.callers = <<>> THEN IdleThread
                ELSE IF c.op = "RegisterStateMachine"
                THEN [c.callers[1] EXCEPT !.err = reg.err]
                ELSE IF c.op = "GetStateMachine"
                THEN [c.callers[1] EXCEPT !.err = get.err, !.machine = get.machine]
                ELSE c.callers[1]]
    /\ mutex' = [mutex EXCEPT !.registry.readers = @ \ {t},
                              !.registry.writer = IF @ = t THEN Nil ELSE @]
    /\ UNCHANGED <<stateMap, ready, id, lastCall, chain, peer, held>>

\* the machine the first builder has built under "m1" after one Perform; the
\* goroutines call its reading operations, SetReady, GetState and the registry
\* (Perform beside these calls is NextRace)
InitConcurrent ==
    /\ stateMap = PerformResult(<<>>, External, "A", "B", "E1", Nil, "Ok")
    /\ ready = TRUE
    /\ id = "m1"
    /\ registry = [m \in {"m1"} |-> "sm"]
    /\ lastCall = NoCall
    /\ chain = NoChain
    /\ peer = [id |-> "", ready |-> FALSE]
    /\ threads = [t \in Threads |-> IdleThread]
    /\ mutex = Unlocked
    /\ held = {"sm"}

NextConcurrent ==
    \E t \in Threads :
        \/ \E op \in ReaderOps \ {"GenerateDiagram"}, s \in StateIds, e \in Events,
              p \in ConcurrentContexts :
              (op \in DiagramOps => s = "A") /\ CallReader(t, op, s, e, p)
        \/ \E fs \in ConcurrentFormatLists : CallGenerateDiagram(t, fs)
        \/ RLock(t)
        \/ ReadBody(t)
        \/ EffectReturns(t)
        \/ RUnlock(t)
        \/ Lock(t)
        \/ LockAcquired(t)
        \/ GetStateUnderLock(t)
        \/ \E b \in BOOLEAN : CallSetReady(t, b)
        \/ \E s \in GetStateIds : CallGetState(t, s)
        \/ SetReadyUnderLock(t)
        \/ \E op \in RegistryReaderOps \cup RegistryWriterOps, m \in ConcurrentRegistryIds :
              CallRegistry(t, op, m)
        \/ RegistryRLock(t)
        \/ RegistryLock(t)
        \/ RegistryLockAcquired(t)
        \/ RegistryBody(t)

SpecConcurrent == InitConcurrent /\ [][NextConcurrent]_vars

\* --------------------------------------------- Perform on the built machine
\* The builder of an empty machine has built it under "m1"; goroutines call
\* Perform on chains of that builder while others fire events on the machine
\* and render it.
InitRace ==
    /\ stateMap = <<>>
    /\ ready = TRUE
    /\ id = "m1"
    /\ registry = [m \in {"m1"} |-> "sm"]
    /\ lastCall = NoCall
    /\ chain = NoChain
    /\ peer = [id |-> "", ready |-> FALSE]
    /\ threads = [t \in Threads |-> IdleThread]
    /\ mutex = Unlocked
    /\ held = {"sm"}

\* The format list of the GenerateDiagram calls that run beside Perform.
RaceFormatLists == {<<PlantUML, MarkdownTable>>}

NextRace ==
    \E t \in Threads :
        \/ \E op \in ReaderOps \ {"GenerateDiagram"}, e \in Events,
              p \in ConcurrentContexts : CallReader(t, op, "A", e, p)
        \/ \E fs \in RaceFormatLists : CallGenerateDiagram(t, fs)
        \/ RLock(t)
        \/ ReadBody(t)
        \/ EffectReturns(t)
        \/ RUnlock(t)
        \/ \E s \in StateIds, target \in StateIds, e \in Events : CallPerform(t, s, target, e)
        \/ Lock(t)
        \/ LockAcquired(t)
        \/ GetStateUnderLock(t)
        \/ AddTransitionUnlocked(t)
        \/ AddTransitionAssign(t)
        \/ AddTransitionMade(t)
        \/ AddTransitionRead(t)
        \/ AddTransitionAssigned(t)
        \/ AddTransitionStore(t)
        \/ SetCondition(t)
        \/ SetAction(t)
        \/ SetActionData(t)

SpecRace == InitRace /\ [][NextRace]_vars

\* ------------------------------------------------------- re-entrant effects
\* An effect is the caller's code: it runs inside FireEvent or
\* FireParallelEvent, under the read lock of that call, and may call the same
\* machine. The operations an effect calls: those that take the read lock and
\* those that take the write lock.
NestedSharedOps == {"FireEvent", "FireParallelEvent", "Verify", "GenerateDiagram"}
NestedExclusiveOps == {"SetReady", "GetState"}

\* the effect running in goroutine t calls op on the machine it runs in; the
\* frame of the firing call waits in callers for the nested call to return.
\* The effect of a transition taken by the nested call calls nothing.
EffectCalls(t, op, s, e, p, b) ==
    /\ threads[t].pc = "effect"
    /\ threads[t].callers = <<>>
    /\ threads' = [threads EXCEPT ![t] =
          [IdleThread EXCEPT !.pc = IF op \in NestedExclusiveOps THEN "Lock" ELSE "RLock",
                             !.op = op, !.state = s, !.event = e, !.ctx = p, !.ok = b,
                             !.callers = <<threads[t]>>]]
    /\ UNCHANGED <<stateMap, ready, id, registry, lastCall, chain, peer, mutex, held>>

\* Goroutines fire events on the built machine, whose effect calls back into
\* it, and call SetReady and GetState on it.
NextReentrant ==
    \E t \in Threads :
        \/ \E op \in {"FireEvent", "FireParallelEvent"}, e \in Events,
              p \in ConcurrentContexts : CallReader(t, op, "A", e, p)
        \/ RLock(t)
        \/ ReadBody(t)
        \/ \E op \in NestedSharedOps, s \in StateIds, e \in Events,
              p \in ConcurrentContexts : EffectCalls(t, op, s, e, p, FALSE)
        \/ \E b \in BOOLEAN : EffectCalls(t, "SetReady", Nil, Nil, threads[t].ctx, b)
        \/ \E s \in GetStateIds : EffectCalls(t, "GetState", s, Nil, threads[t].ctx, FALSE)
        \/ EffectReturns(t)
        \/ RUnlock(t)
        \/ \E b \in BOOLEAN : CallSetReady(t, b)
        \/ \E s \in GetStateIds : CallGetState(t, s)
        \/ Lock(t)
        \/ LockAcquired(t)
        \/ GetStateUnderLock(t)
        \/ SetReadyUnderLock(t)

SpecReentrant == InitConcurrent /\ [][NextReentrant]_vars

\* -------------------------------------------------------- concurrent Build
\* The two builders: "sm" owns the machine of the variables stateMap, ready, id
\* and mutex, "peer" the machine of the variable peer. The mutex and the flag
\* of the peer machine are used by its builder's Build alone.
Builders == {"sm", "peer"}

\* Build that registers the machine before it marks it ready
BuildNextPublishFirst(stage) ==
    CASE stage = "Build.id" -> "Build.RegisterStateMachine"
      [] stage = "Build.RegisterStateMachine" -> "Build.SetReady"
      [] stage = "Build.SetReady" -> "Build.return"

\* the statements of Build in their order: b.stateMachine.id = machineId,
\* b.stateMachine.SetReady(true), RegisterStateMachine(machineId, b.stateMachine),
\* return
BuildNext(stage) ==
    CASE stage = "Build.id" -> "Build.SetReady"
      [] stage = "Build.SetReady" -> "Build.RegisterStateMachine"
      [] stage = "Build.RegisterStateMachine" -> "Build.return"

\* goroutine t enters builder.Build(machineId); a builder is used by one
\* goroutine at a time
CallBuild(t, builder, machineId) ==
    /\ threads[t].pc = "idle"
    /\ \A u \in Threads :
          threads[u].builder # builder
          /\ (threads[u].callers # <<>> => threads[u].callers[1].builder # builder)
    /\ threads' = [threads EXCEPT ![t] =
          [IdleThread EXCEPT !.pc = "Build.id", !.op = "Build", !.builder = builder,
                             !.machineId = machineId,
                             !.fresh = (machineId \notin DOMAIN registry)]]
    /\ UNCHANGED <<stateMap, ready, id, registry, lastCall, chain, peer, mutex, held>>

\* b.stateMachine.id = machineId: no lock is taken
BuildWriteId(t) ==
    /\ threads[t].pc = "Build.id"
    /\ IF threads[t].builder = "sm"
       THEN id' = threads[t].machineId /\ peer' = peer
       ELSE peer' = [peer EXCEPT !.id = threads[t].machineId] /\ id' = id
    /\ threads' = [threads EXCEPT ![t].pc = BuildNext("Build.id")]
    /\ UNCHANGED <<stateMap, ready, registry, lastCall, chain, mutex, held>>

\* b.stateMachine.SetReady(true): Build calls SetReady on its machine
BuildSetReady(t) ==
    /\ threads[t].pc = "Build.SetReady"
    /\ LET c == threads[t]
           back == [c EXCEPT !.pc = BuildNext("Build.SetReady")]
       IN IF c.builder = "sm"
          THEN /\ threads' = [threads EXCEPT ![t] =
                     [IdleThread EXCEPT !.pc = "Lock", !.op = "SetReady", !.ok = TRUE,
                                        !.callers = <<back>>]]
               /\ peer' = peer
          ELSE /\ threads' = [threads EXCEPT ![t] = back]
               /\ peer' = [peer EXCEPT !.ready = TRUE]
    /\ UNCHANGED <<stateMap, ready, id, registry, lastCall, chain, mutex, held>>

\* err := RegisterStateMachine(machineId, b.stateMachine)
BuildRegisters(t) ==
    /\ threads[t].pc = "Build.RegisterStateMachine"
    /\ LET c == threads[t]
           back == [c EXCEPT !.pc = BuildNext("Build.RegisterStateMachine")]
       IN threads' = [threads EXCEPT ![t] =
             [IdleThread EXCEPT !.pc = "RegistryLock", !.op = "RegisterStateMachine",
                                !.machineId = c.machineId, !.machine = c.builder,
                                !.callers = <<back>>]]
    /\ UNCHANGED <<stateMap, ready, id, registry, lastCall, chain, peer, mutex, held>>

\* Build has returned (nil, err) or (b.stateMachine, nil): the caller takes the result
BuildReturns(t) ==
    /\ threads[t].pc = "Build.return"
    /\ threads' = [threads EXCEPT ![t] = IdleThread]
    /\ held' = IF threads[t].err = NoError THEN held \cup {threads[t].builder} ELSE held
    /\ UNCHANGED <<stateMap, ready, id, registry, lastCall, chain, peer, mutex>>

\* A client goroutine: sm, err := GetStateMachine[S, E, C](machineId), and when
\* err is nil, sm.FireEvent(s, e, p). It calls GetStateMachine at the
\* instantiation of the first builder's machine.
CallClient(t, machineId) ==
    /\ threads[t].pc = "idle"
    /\ threads' = [threads EXCEPT ![t] =
          [IdleThread EXCEPT !.pc = "RegistryLock", !.op = "GetStateMachine",
                             !.machineId = machineId, !.type = MachineType("sm"),
                             !.callers = <<[IdleThread EXCEPT !.pc = "Client.obtained",
                                                              !.op = "Client",
                                                              !.machineId = machineId]>>]]
    /\ UNCHANGED <<stateMap, ready, id, registry, lastCall, chain, peer, mutex, held>>

\* the client fires an event on the machine GetStateMachine has returned
ClientFires(t, s, e, p) ==
    /\ threads[t].pc = "Client.obtained"
    /\ threads[t].err = NoError /\ threads[t].machine = "sm"
    /\ threads' = [threads EXCEPT ![t] =
          [IdleThread EXCEPT !.pc = "RLock", !.op = "FireEvent", !.state = s,
                             !.event = e, !.ctx = p,
                             !.callers = <<[threads[t] EXCEPT !.pc = "Client.return"]>>]]
    /\ held' = held \cup {"sm"}
    /\ UNCHANGED <<stateMap, ready, id, registry, lastCall, chain, peer, mutex>>

\* the client is done: its FireEvent has returned, or GetStateMachine gave an error
ClientReturns(t) ==
    /\ \/ threads[t].pc = "Client.return"
       \/ threads[t].pc = "Client.obtained" /\ threads[t].err # NoError
    /\ threads' = [threads EXCEPT ![t] = IdleThread]
    /\ UNCHANGED <<stateMap, ready, id, registry, lastCall, chain, peer, mutex, held>>

\* Two goroutines call Build on the two builders with the same identifier and
\* look the machine up to fire an event on it; a goroutine that holds the
\* first builder's machine fires events on it without looking it up.
NextBuild ==
    \E t \in Threads :
        \/ \E b \in Builders, m \in ConcurrentRegistryIds : CallBuild(t, b, m)
        \/ \E e \in Events, p \in ConcurrentContexts :
              "sm" \in held /\ CallReader(t, "FireEvent", "A", e, p)
        \/ BuildWriteId(t)
        \/ BuildSetReady(t)
        \/ BuildRegisters(t)
        \/ BuildReturns(t)
        \/ Lock(t)
        \/ LockAcquired(t)
        \/ SetReadyUnderLock(t)
        \/ RegistryRLock(t)
        \/ RegistryLock(t)
        \/ RegistryLockAcquired(t)
        \/ RegistryBody(t)
        \/ \E m \in ConcurrentRegistryIds : CallClient(t, m)
        \/ \E s \in StateIds, e \in Events, p \in ConcurrentContexts : ClientFires(t, s, e, p)
        \/ RLock(t)
        \/ ReadBody(t)
        \/ EffectReturns(t)
        \/ RUnlock(t)
        \/ ClientReturns(t)

SpecBuild == InitRegistry /\ [][NextBuild]_vars

\* ------------------------------------------------- firing calls side by side
\* Goroutines fire events on a built machine and probe it, and nothing else is
\* called on it. A caller keeps the result of a call that has returned and
\* holds it against the results of the calls made later, by itself or by
\* another goroutine.
FiringOps == {"FireEvent", "FireParallelEvent", "Verify"}
\* The payloads of these calls: those on which a guard answers the same at
\* every evaluation.
PureContexts == {p \in Contexts : ~p.Flaky}

\* the machine built under "m1" after two Perform calls: A -E1-> B with the
\* guard c, and behind it a second transition of (A, E1) without a guard
InitStateless ==
    /\ \E c \in Conditions, a \in {"Ok", "Fail"} :
          stateMap = PerformResult(PerformResult(<<>>, External, "A", "B", "E1", c, "Ok"),
                                   External, "A", "A", "E1", Nil, a)
    /\ ready = TRUE
    /\ id = "m1"
    /\ registry = [m \in {"m1"} |-> "sm"]
    /\ lastCall = NoCall
    /\ chain = NoChain
    /\ peer = [id |-> "", ready |-> FALSE]
    /\ threads = [t \in Threads |-> IdleThread]
    /\ mutex = Unlocked
    /\ held = {"sm"}

\* the frames a and b are calls of the same operation with the same arguments
SameCall(a, b) ==
    /\ a.op = b.op /\ a.state = b.state /\ a.event = b.event
    /\ a.op # "Verify" => a.ctx = b.ctx

\* what the caller keeps of the call of frame c: its arguments and its results
KeptResult(c) ==
    [NoCall EXCEPT !.op = c.op, !.state = c.state, !.event = c.event, !.ctx = c.ctx,
                   !.ret = c.ret, !.rets = c.rets, !.ok = c.ok, !.err = c.err]

\* defer sm.mutex.RUnlock() of FireEvent, FireParallelEvent or Verify: the call
\* of goroutine t returns. The caller keeps its result in place of the one
\* kept so far, or leaves it; lastCall.i tells whether a call other than the
\* kept one has returned since the kept one did
FiringReturns(t) ==
    /\ threads[t].pc = "RUnlock"
    /\ threads[t].op \in FiringOps
    /\ mutex' = [mutex EXCEPT !.readers = @ \ {t}]
    /\ threads' = [threads EXCEPT ![t] = ReturnTo(threads[t])]
    /\ \/ lastCall' = KeptResult(threads[t])
       \/ /\ lastCall.op # "none"
          /\ lastCall' = IF SameCall(lastCall, threads[t]) THEN lastCall
                         ELSE [lastCall EXCEPT !.i = 1]
    /\ UNCHANGED <<stateMap, ready, id, registry, chain, peer, held>>

NextStateless ==
    \E t \in Threads :
        \/ \E op \in FiringOps, s \in StateIds, e \in Events, p \in PureContexts :
              CallReader(t, op, s, e, p)
        \/ RLock(t)
        \/ ReadBody(t)
        \/ EffectReturns(t)
        \/ FiringReturns(t)

SpecStateless == InitStateless /\ [][NextStateless]_vars

\* ------------------------------------------------------------- properties
\* the transition list the last call resolved: that of (lastCall.state, lastCall.event)
CallTransitions ==
    IF lastCall.state \in DOMAIN stateMap
    THEN GetEventTransitions(stateMap[lastCall.state], lastCall.event)
    ELSE <<>>

IsFire == lastCall.op = "FireEvent"
IsParallel == lastCall.op = "FireParallelEvent"

\* the guard of t is absent or true on the (non-flaky) payload p
GuardAbsentOrTrue(t, p) == t.Condition = Nil \/ p.Amount > 0
\* positions of the transitions of T matched by p
Matched(T, p) == {i \in 1..Len(T) : GuardAbsentOrTrue(T[i], p)}
Min(S) == CHOOSE x \in S : \A y \in S : x <= y
Max(S) == CHOOSE x \in S : \A y \in S : x >= y
InvalidInternal(t) == t.TransType = Internal /\ t.Source # t.Target
\* taking t succeeds: it is no ill-formed internal transition and its effect does not fail
Takeable(t) == ~InvalidInternal(t) /\ t.Action # "Fail"
Reverse(T) == [i \in 1..Len(T) |-> T[Len(T) + 1 - i]]
\* positions in the call's trace of the effect executions / guard evaluations
Execs == {k \in 1..Len(lastCall.log) : lastCall.log[k].kind = "exec"}
Guards == {k \in 1..Len(lastCall.log) : lastCall.log[k].kind = "guard"}
\* positions of the transitions the call found matching, as the trace tells:
\* guard absent, or a guard evaluation that answered true
SeenMatching ==
    {i \in 1..Len(CallTransitions) :
        \/ CallTransitions[i].Condition = Nil
        \/ \E k \in Guards : lastCall.log[k].idx = i /\ lastCall.log[k].val}

\* C1: FireEvent on a built machine returns the target of the earliest-registered
\* transition of (s,e) whose guard is absent or true on the payload (it succeeds
\* exactly when that transition can be taken), and for the same transitions
\* registered in the opposite order it returns the target of the latest one instead.
C1_FirstMatchWins ==
    (IsFire /\ ready /\ ~lastCall.ctx.Flaky /\ Matched(CallTransitions, lastCall.ctx) # {}) =>
        LET T == CallTransitions
            first == T[Min(Matched(T, lastCall.ctx))]
            last == T[Max(Matched(T, lastCall.ctx))]
            rev == FireEventLoop(Reverse(T), 1, lastCall.ctx, NewEnv)
        IN /\ Takeable(first) => (lastCall.err = NoError /\ lastCall.ret = first.Target)
           /\ ~Takeable(first) => lastCall.err # NoError
           /\ (Takeable(first) /\ Takeable(last) /\ first.Target # last.Target) =>
                 (rev.err = NoError /\ rev.state = last.Target /\ rev.state # lastCall.ret)

\* C1 witness: two overlapping transitions with different targets, the first one guarded and taken
C1_Witness ==
    /\ IsFire /\ ready /\ ~lastCall.ctx.Flaky
    /\ Len(CallTransitions) = 2
    /\ Matched(CallTransitions, lastCall.ctx) = {1, 2}
    /\ CallTransitions[1].Condition # Nil
    /\ CallTransitions[1].Target # CallTransitions[2].Target
    /\ Takeable(CallTransitions[1]) /\ Takeable(CallTransitions[2])
    /\ lastCall.err = NoError
    /\ lastCall.ret = CallTransitions[1].Target

\* C2: in one FireEvent call nothing is done with a transition registered after
\* the chosen one (no guard evaluation, no effect execution), and at most one
\* effect runs, that of the chosen transition.
C2_LaterNeverConsulted ==
    IsFire =>
        /\ Cardinality(Execs) <= 1
        /\ SeenMatching # {} =>
              /\ \A k \in 1..Len(lastCall.log) : lastCall.log[k].idx <= Min(SeenMatching)
              /\ \A k \in Execs : lastCall.log[k].idx = Min(SeenMatching)
        /\ SeenMatching = {} => Execs = {}

\* C2 witness: a later transition would match too (guarded, guard true) and has an effect
C2_Witness ==
    /\ IsFire /\ ready /\ ~lastCall.ctx.Flaky /\ lastCall.ctx.Amount > 0
    /\ Len(CallTransitions) = 2
    /\ CallTransitions[1].Condition # Nil /\ CallTransitions[2].Condition # Nil
    /\ CallTransitions[1].Action = "Ok" /\ CallTransitions[2].Action = "Ok"
    /\ Takeable(CallTransitions[1]) /\ Takeable(CallTransitions[2])
    /\ Cardinality(Execs) = 1
    /\ lastCall.err = NoError

\* C3: on a built machine FireEvent fails with StateNotFound for a state that is
\* not in the state table, with TransitionNotFound for a state without transition
\* for the event, with ConditionNotMet when every transition of (s,e) has a guard
\* that is false on the payload; no effect is executed in any of these cases.
C3_FireEventErrors ==
    (IsFire /\ ready) =>
        /\ lastCall.state \notin DOMAIN stateMap =>
              (lastCall.err = StateNotFound /\ lastCall.log = <<>> /\ lastCall.ret = zeroState)
        /\ (lastCall.state \in DOMAIN stateMap /\ Len(CallTransitions) = 0) =>
              (lastCall.err = TransitionNotFound /\ lastCall.log = <<>> /\ lastCall.ret = zeroState)
        /\ (Len(CallTransitions) > 0 /\ ~lastCall.ctx.Flaky
              /\ Matched(CallTransitions, lastCall.ctx) = {}) =>
              (lastCall.err = ConditionNotMet /\ Execs = {} /\ lastCall.ret = zeroState)

\* C3 witness: two guarded transitions with effects, both guards false: ConditionNotMet
C3_Witness ==
    /\ IsFire /\ ready /\ ~lastCall.ctx.Flaky
    /\ Len(CallTransitions) = 2
    /\ Matched(CallTransitions, lastCall.ctx) = {}
    /\ \A i \in 1..2 : CallTransitions[i].Action # Nil
    /\ lastCall.err = ConditionNotMet
    /\ Cardinality(Guards) = 2

\* C4: before Build has set the readiness flag, FireEvent and FireParallelEvent
\* fail with the not-ready error and Verify returns false, whatever the
\* arguments, and no guard is evaluated and no effect executed.
C4_NotReady ==
    ~ready =>
        /\ (IsFire \/ IsParallel) =>
              /\ lastCall.err = StateMachineNotReady
              /\ lastCall.log = <<>>
              /\ lastCall.ret = IF IsFire THEN zeroState ELSE Nil
              /\ lastCall.rets = <<>>
        /\ lastCall.op = "Verify" => ~lastCall.ok

\* C4 witness: a call that would succeed on the built machine fails on the unbuilt one
C4_Witness ==
    /\ ~ready /\ IsFire
    /\ Len(CallTransitions) > 0
    /\ ~lastCall.ctx.Flaky
    /\ Matched(CallTransitions, lastCall.ctx) # {}
    /\ Takeable(CallTransitions[Min(Matched(CallTransitions, lastCall.ctx))])
    /\ lastCall.err = StateMachineNotReady

\* C5: when the effect of the transition chosen by FireEvent fails, the call
\* returns the error at once: the failed execution is the last thing the call
\* did and the only effect execution, so no other candidate is tried.
C5_NoRetryAfterEffectFailure ==
    (IsFire /\ \E k \in Execs : CallTransitions[lastCall.log[k].idx].Action = "Fail") =>
        /\ lastCall.err # NoError
        /\ lastCall.err.msg = "action execution failed"
        /\ lastCall.ret = zeroState
        /\ Cardinality(Execs) = 1
        /\ Len(lastCall.log) \in Execs

\* C5 witness: the first candidate's effect fails while a second candidate would match
C5_Witness ==
    /\ IsFire /\ ready /\ ~lastCall.ctx.Flaky
    /\ Len(CallTransitions) = 2
    /\ Matched(CallTransitions, lastCall.ctx) = {1, 2}
    /\ CallTransitions[1].Action = "Fail" /\ ~InvalidInternal(CallTransitions[1])
    /\ CallTransitions[2].Action = "Ok" /\ Takeable(CallTransitions[2])
    /\ CallTransitions[2].Condition # Nil
    /\ lastCall.err # NoError

\* C6: when the effect of a taken transition returns an error, FireEvent and
\* FireParallelEvent return the action-execution-failed error wrapping it: the
\* effect's own error is the cause of the returned error.
C6_EffectErrorWrapped ==
    ((IsFire \/ IsParallel)
        /\ \E k \in Execs : CallTransitions[lastCall.log[k].idx].Action = "Fail") =>
        /\ lastCall.err.msg = "action execution failed"
        /\ lastCall.err.cause = ErrEffect

\* C6 witness: FireParallelEvent whose second matched transition's effect fails
C6_Witness ==
    /\ IsParallel /\ ready
    /\ Len(CallTransitions) = 2
    /\ CallTransitions[1].Action = "Ok" /\ CallTransitions[2].Action = "Fail"
    /\ Cardinality(Execs) = 2
    /\ lastCall.err.cause = ErrEffect

\* C7 (as claimed): whenever FireEvent returns without error, the chosen
\* transition's effect, if it has one, ran exactly once in the call and the
\* returned state is the chosen transition's target, for every guard.
C7_SuccessRanEffectOnceAndReturnsTarget ==
    (IsFire /\ lastCall.err = NoError) =>
        /\ SeenMatching # {}
        /\ LET chosen == Min(SeenMatching)
               t == CallTransitions[chosen]
           IN /\ lastCall.ret = t.Target
              /\ t.Action # Nil =>
                    (Cardinality(Execs) = 1 /\ \A k \in Execs : lastCall.log[k].idx = chosen)
              /\ t.Action = Nil => Execs = {}

\* C8 (as claimed): firing an event whose only transition is internal with
\* source # target fails with the internal-transition error whatever its guard
\* answers, and its effect is not executed.
C8_InternalMismatchAlwaysInternalError ==
    (IsFire /\ ready /\ Len(CallTransitions) = 1 /\ InvalidInternal(CallTransitions[1])) =>
        /\ lastCall.err = InternalTransitionInvariantViolated
        /\ Execs = {}

\* C8 (amended): firing an event (FireEvent or FireParallelEvent) whose only
\* transition is internal with source # target always fails and never executes
\* its effect: with the internal-transition error when its guard is absent or
\* answers true, with ConditionNotMet when its guard answers false.
C8_InternalMismatchAlwaysFails ==
    ((IsFire \/ IsParallel) /\ ready
        /\ Len(CallTransitions) = 1 /\ InvalidInternal(CallTransitions[1])) =>
        /\ Execs = {}
        /\ lastCall.ret \in {zeroState, Nil} /\ lastCall.rets = <<>>
        /\ lastCall.err = IF SeenMatching = {} THEN ConditionNotMet
                          ELSE InternalTransitionInvariantViolated
        /\ ~lastCall.ctx.Flaky =>
              (SeenMatching = {} <=> ~GuardAbsentOrTrue(CallTransitions[1], lastCall.ctx))

\* C8 witness: the guard is present and true, the effect exists, the call fails
C8_Witness ==
    /\ IsFire /\ ready
    /\ Len(CallTransitions) = 1 /\ InvalidInternal(CallTransitions[1])
    /\ CallTransitions[1].Condition # Nil /\ CallTransitions[1].Action = "Ok"
    /\ ~lastCall.ctx.Flaky /\ lastCall.ctx.Amount > 0
    /\ lastCall.err = InternalTransitionInvariantViolated

\* C9: on a built machine Verify(s,e) is true exactly when s is in the state
\* table and a transition was registered for (s,e), whatever the guards of
\* these transitions; it evaluates no guard and executes no effect.
C9_VerifyIffRegistered ==
    (lastCall.op = "Verify" /\ ready) =>
        /\ lastCall.ok <=>
              /\ lastCall.state \in DOMAIN stateMap
              /\ lastCall.event \in DOMAIN stateMap[lastCall.state].eventTransitions
        /\ lastCall.log = <<>>

\* C9 witness: Verify is true although the only transition is guarded
C9_Witness ==
    /\ lastCall.op = "Verify" /\ ready /\ lastCall.ok
    /\ Len(CallTransitions) = 1
    /\ CallTransitions[1].Condition # Nil

\* the k-th smallest element of the set S of numbers
Kth(S, k) == CHOOSE i \in S : Cardinality({j \in S : j < i}) = k - 1

\* C10: on a built machine FireParallelEvent fails with ConditionNotMet when no
\* transition of (s,e) matches the payload, and when it succeeds (which it does
\* whenever every matched transition can be taken) it returns the targets of
\* exactly the matched transitions, in registration order.
C10_ParallelReturnsAllMatched ==
    (IsParallel /\ ready /\ ~lastCall.ctx.Flaky /\ Len(CallTransitions) > 0) =>
        LET T == CallTransitions
            M == Matched(T, lastCall.ctx)
        IN /\ M = {} =>
                 (lastCall.err = ConditionNotMet /\ lastCall.rets = <<>> /\ Execs = {})
           /\ (M # {} /\ \A i \in M : Takeable(T[i])) => lastCall.err = NoError
           /\ lastCall.err = NoError =>
                 /\ Len(lastCall.rets) = Cardinality(M)
                 /\ \A k \in 1..Len(lastCall.rets) : lastCall.rets[k] = T[Kth(M, k)].Target

\* C10 witness: two guarded transitions with different targets, both matched
C10_Witness ==
    /\ IsParallel /\ ready /\ ~lastCall.ctx.Flaky
    /\ Len(CallTransitions) = 2
    /\ CallTransitions[1].Condition # Nil /\ CallTransitions[2].Condition # Nil
    /\ CallTransitions[1].Target # CallTransitions[2].Target
    /\ lastCall.err = NoError
    /\ lastCall.rets = <<CallTransitions[1].Target, CallTransitions[2].Target>>

\* C11: when in FireParallelEvent the effect of a matched transition fails, the
\* call returns that error and no result list; the failed execution is the last
\* thing the call did: each matched transition registered before it that has an
\* effect had it executed exactly once, and no effect of a matched transition
\* registered after it is executed.
C11_ParallelAbortsAtFailedEffect ==
    (IsParallel /\ \E k \in Execs : CallTransitions[lastCall.log[k].idx].Action = "Fail") =>
        LET failed == CHOOSE k \in Execs : CallTransitions[lastCall.log[k].idx].Action = "Fail"
            at == lastCall.log[failed].idx
        IN /\ lastCall.err.msg = "action execution failed"
           /\ lastCall.err.cause = ErrEffect
           /\ lastCall.rets = <<>>
           /\ failed = Len(lastCall.log)
           /\ \A i \in SeenMatching :
                 LET runs == {k \in Execs : lastCall.log[k].idx = i}
                 IN /\ (i < at /\ CallTransitions[i].Action # Nil) => Cardinality(runs) = 1
                    /\ i = at => Cardinality(runs) = 1
                    /\ i > at => runs = {}

\* C11 witness: the first matched transition's effect fails, the second matched
\* transition has an effect that is not run
C11_Witness ==
    /\ IsParallel /\ ready /\ ~lastCall.ctx.Flaky
    /\ Len(CallTransitions) = 2
    /\ SeenMatching = {1, 2}
    /\ CallTransitions[1].Action = "Fail" /\ CallTransitions[2].Action = "Ok"
    /\ ~InvalidInternal(CallTransitions[1])
    /\ Cardinality(Execs) = 1
    /\ lastCall.rets = <<>> /\ lastCall.err.cause = ErrEffect

\* C11 second case: the first matched transition's effect has run once when the
\* second one's fails
C11_EarlierEffectRan ==
    /\ IsParallel /\ ready
    /\ Len(CallTransitions) = 2
    /\ CallTransitions[1].Action = "Ok" /\ CallTransitions[2].Action = "Fail"
    /\ CallTransitions[1].Condition # Nil /\ CallTransitions[2].Condition # Nil
    /\ Cardinality(Execs) = 2
    /\ lastCall.rets = <<>>

\* C12: Perform on ExternalTransitions().FromAmong(s1..sn).To(t).On(e)[.When(g)]
\* adds exactly n transitions, for each listed source si one external transition
\* si --e--> t appended to the list of (si,e), all with the chain's guard and the
\* same effect, and changes nothing else; afterwards FireEvent(si,e,p) on the
\* built machine, for a source that had no transition for e before and a payload
\* on which the guard is absent or true, returns t and has executed the effect
\* once, with from = si and to = t.
C12_FromAmongRegistersOnePerSource ==
    Returned("MultipleTransitionBuilder.Perform") =>
        LET b == chain
            n == Len(b.sourceIds)
            before == lastCall.before.stateMap
            old(x) == TransitionsOf(before, x, b.event)
            new(x) == TransitionsOf(stateMap, x, b.event)
            a == new(b.sourceIds[1])[Len(old(b.sourceIds[1])) + 1].Action
        IN /\ Cardinality(TransitionKeys(stateMap)) = Cardinality(TransitionKeys(before)) + n
           /\ n > 0 => a \in ChainActions
           /\ \A i \in 1..n :
                 LET si == b.sourceIds[i]
                 IN /\ Len(new(si)) = Len(old(si)) + Occurrences(b.sourceIds, si, n)
                    /\ SubSeq(new(si), 1, Len(old(si))) = old(si)
                    /\ new(si)[Len(old(si)) + Occurrences(b.sourceIds, si, i)] =
                          [Source |-> si, Target |-> b.targetId, Event |-> b.event,
                           Condition |-> b.condition, Action |-> a, TransType |-> External]
                    /\ \A p \in Contexts :
                          (old(si) = <<>> /\ ~p.Flaky /\ (b.condition = Nil \/ p.Amount > 0)) =>
                             LET r == FireEventResult(stateMap, TRUE, si, b.event, p)
                             IN /\ r.err = NoError
                                /\ r.state = b.targetId
                                /\ Cardinality(ExecsIn(r.env.log)) = 1
                                /\ \A k \in ExecsIn(r.env.log) :
                                      r.env.log[k].from = si /\ r.env.log[k].to = b.targetId
           /\ DOMAIN stateMap = DOMAIN before \cup {b.sourceIds[i] : i \in 1..n}
                                   \cup (IF n > 0 THEN {b.targetId} ELSE {})
           /\ \A x \in DOMAIN before :
                 (\A i \in 1..n : b.sourceIds[i] # x) => stateMap[x] = before[x]

\* C12 witness: Perform has just registered A --E1--> B and B --E1--> B from
\* FromAmong(A, B).To(B), both guarded
C12_Witness ==
    /\ Returned("MultipleTransitionBuilder.Perform")
    /\ lastCall.rets = <<"A", "B">> /\ lastCall.ret = "B"
    /\ \A x \in {"A", "B"} :
          /\ Len(TransitionsOf(stateMap, x, lastCall.event)) = 1
          /\ TransitionsOf(stateMap, x, lastCall.event)[1].Source = x
          /\ TransitionsOf(stateMap, x, lastCall.event)[1].Target = "B"
          /\ TransitionsOf(stateMap, x, lastCall.event)[1].Condition # Nil
          /\ TransitionsOf(stateMap, x, lastCall.event)[1].Action = "Ok"

\* C13: Perform on ExternalParallelTransition().From(s).ToAmong(t1..tm).On(e)[.When(g)]
\* appends exactly m external transitions s --e--> tj to the list of (s,e), in
\* the order t1..tm, all with the chain's guard and the same effect, and changes
\* no other list; when (s,e) had no transition before, FireParallelEvent(s,e,p)
\* on the built machine evaluates the guard once for each of the m transitions
\* and executes the effect once per matched transition, with to = tj.
C13_ToAmongRegistersInOrder ==
    Returned("ParallelTransitionBuilder.Perform") =>
        LET b == chain
            m == Len(b.targetIds)
            before == lastCall.before.stateMap
            old == TransitionsOf(before, b.sourceId, b.event)
            new == TransitionsOf(stateMap, b.sourceId, b.event)
            a == new[Len(old) + 1].Action
        IN /\ Cardinality(TransitionKeys(stateMap)) = Cardinality(TransitionKeys(before)) + m
           /\ m > 0 => a \in ChainActions
           /\ Len(new) = Len(old) + m
           /\ SubSeq(new, 1, Len(old)) = old
           /\ \A j \in 1..m :
                 new[Len(old) + j] =
                    [Source |-> b.sourceId, Target |-> b.targetIds[j], Event |-> b.event,
                     Condition |-> b.condition, Action |-> a, TransType |-> External]
           /\ \A x \in DOMAIN before : x # b.sourceId => stateMap[x] = before[x]
           /\ \A p \in Contexts :
                 old = <<>> =>
                    LET r == FireParallelEventResult(stateMap, TRUE, b.sourceId, b.event, p)
                        log == r.env.log
                        M == {j \in 1..m : \/ b.condition = Nil
                                           \/ \E k \in GuardsIn(log) :
                                                 log[k].idx = j /\ log[k].val}
                    IN /\ b.condition = Nil => GuardsIn(log) = {}
                       /\ b.condition # Nil =>
                             \A j \in 1..m :
                                Cardinality({k \in GuardsIn(log) : log[k].idx = j}) = 1
                       /\ \A j \in 1..m :
                             LET runs == {k \in ExecsIn(log) : log[k].idx = j}
                             IN /\ j \in M => Cardinality(runs) = 1
                                /\ j \notin M => runs = {}
                                /\ \A k \in runs : log[k].from = b.sourceId
                                                   /\ log[k].to = b.targetIds[j]
                       /\ M # {} =>
                             /\ r.err = NoError
                             /\ Len(r.states) = Cardinality(M)
                             /\ \A k \in 1..Len(r.states) :
                                   r.states[k] = b.targetIds[Kth(M, k)]

\* C13 witness: Perform has just registered A --E1--> B and A --E1--> A, in this
\* order, from From(A).ToAmong(B, A), both guarded
C13_Witness ==
    /\ Returned("ParallelTransitionBuilder.Perform")
    /\ lastCall.state = "A" /\ lastCall.rets = <<"B", "A">>
    /\ Len(TransitionsOf(stateMap, "A", lastCall.event)) = 2
    /\ TransitionsOf(stateMap, "A", lastCall.event)[1].Target = "B"
    /\ TransitionsOf(stateMap, "A", lastCall.event)[2].Target = "A"
    /\ \A j \in 1..2 : TransitionsOf(stateMap, "A", lastCall.event)[j].Condition # Nil

PerformOps == {"TransitionBuilder.Perform", "MultipleTransitionBuilder.Perform",
               "ParallelTransitionBuilder.Perform"}
\* how many transitions the builder b describes: one, one per listed source, or
\* one per listed target
TransitionsDescribed(b) ==
    CASE b.kind = "MultipleTransitionBuilder" -> Len(b.sourceIds)
      [] b.kind = "ParallelTransitionBuilder" -> Len(b.targetIds)
      [] OTHER -> 1

\* C14: the graph changes exactly in the steps of a Perform call, built or
\* not: a Perform call that describes a transition has changed the graph when
\* it returns, TransitionBuilder.Perform has added the chain's source and
\* target states and its transition by then, and no other step of a chain
\* (starting it, From, To, On, When, leaving it unfinished) nor Build adds a
\* state or a transition; so for a chain that has not been performed, whose
\* (source, event) had no transition, Verify stays false and FireEvent keeps
\* failing for its (source, event) on the built machine.
C14_RegisteredAtPerformOnly ==
    [][/\ (lastCall'.op \in PerformOps /\ lastCall'.pc = ""
             /\ TransitionsDescribed(chain') > 0) =>
             stateMap' # lastCall'.before.stateMap
       /\ lastCall'.op \notin PerformOps => stateMap' = stateMap
       /\ (lastCall'.op = "TransitionBuilder.Perform" /\ lastCall'.pc = "") =>
             LET before == lastCall'.before.stateMap
                 old == TransitionsOf(before, chain.sourceId, chain.event)
                 new == TransitionsOf(stateMap', chain.sourceId, chain.event)
             IN /\ DOMAIN stateMap' = DOMAIN before \cup {chain.sourceId, chain.targetId}
                /\ Len(new) = Len(old) + 1
                /\ new[Len(new)].Source = chain.sourceId
                /\ new[Len(new)].Target = chain.targetId
                /\ new[Len(new)].Condition = chain.condition
                /\ VerifyResult(stateMap', TRUE, chain.sourceId, chain.event)
       /\ (chain.kind = "TransitionBuilder" /\ chain.step \in {"To", "On", "When"}
             /\ lastCall'.op \notin PerformOps
             /\ TransitionsOf(stateMap, chain.sourceId, chain.event) = <<>>) =>
             /\ ~VerifyResult(stateMap', TRUE, chain.sourceId, chain.event)
             /\ \A p \in Contexts :
                   FireEventResult(stateMap', TRUE, chain.sourceId, chain.event, p).err
                      \in {StateNotFound, TransitionNotFound}
             /\ (lastCall'.op = "Verify" /\ lastCall'.state = chain.sourceId
                   /\ lastCall'.event = chain.event /\ ready) =>
                   ~lastCall'.ok
             /\ (lastCall'.op = "FireEvent" /\ lastCall'.state = chain.sourceId
                   /\ lastCall'.event = chain.event /\ ready) =>
                   lastCall'.err \in {StateNotFound, TransitionNotFound}
    ]_vars

\* C14 witness: the machine is built while the chain From(A).To(B).On(E1) is left
\* without Perform; A is no state of the machine and Verify(A, E1) answers false
C14_Witness ==
    /\ ready
    /\ chain.kind = "TransitionBuilder" /\ chain.step = "On"
    /\ chain.sourceId = "A" /\ chain.targetId = "B"
    /\ "A" \notin DOMAIN stateMap
    /\ lastCall.op = "Verify" /\ lastCall.state = "A" /\ lastCall.event = chain.event
    /\ ~lastCall.ok

\* C14 second case: Perform has added the transition and its states to the graph
\* of a machine that is not built yet
C14_AddedBeforeBuild ==
    /\ ~ready
    /\ Returned("TransitionBuilder.Perform")
    /\ lastCall.state \in DOMAIN stateMap /\ lastCall.ret \in DOMAIN stateMap
    /\ Len(TransitionsOf(stateMap, lastCall.state, lastCall.event)) = 1

\* C15: a Build(id) call with an id that is not in the registry succeeds and
\* returns the builder's machine; it has set that machine's identifier to id
\* and its readiness to true and added the entry id -> machine to the registry,
\* so that GetStateMachine(id) returns that machine, and FireEvent,
\* FireParallelEvent and Verify on it no longer answer as on a machine that is
\* not ready.
C15_BuildPublishes ==
    (Returned("Build") /\ lastCall.machineId \notin DOMAIN lastCall.before.registry) =>
        LET b == lastCall.builder
            k == lastCall.machineId
            before == lastCall.before.registry
        IN /\ lastCall.err = NoError /\ lastCall.ok /\ lastCall.machine = b
           /\ b = "sm" => (id = k /\ ready = TRUE)
           /\ b = "peer" => peer = [id |-> k, ready |-> TRUE]
           /\ DOMAIN registry = DOMAIN before \cup {k}
           /\ registry[k] = b
           /\ \A m \in DOMAIN before : registry[m] = before[m]
           /\ GetStateMachineResult(registry, k, MachineType(b)) =
                 [machine |-> b, err |-> NoError]
           /\ b = "sm" =>
                 /\ \A s \in StateIds, e \in Events, p \in Contexts :
                       /\ FireEventResult(stateMap, ready, s, e, p).err
                             # StateMachineNotReady
                       /\ FireParallelEventResult(stateMap, ready, s, e, p).err
                             # StateMachineNotReady
                 /\ \A s \in DOMAIN stateMap, e \in Events :
                       TransitionsOf(stateMap, s, e) # <<>> =>
                          VerifyResult(stateMap, ready, s, e)

\* C15 witness: Build("m2") has succeeded on the first builder while "m1" is
\* taken by the other machine
C15_Witness ==
    /\ Returned("Build") /\ lastCall.builder = "sm" /\ lastCall.ok
    /\ lastCall.machineId = "m2" /\ id = "m2" /\ ready
    /\ DOMAIN registry = {"m1", "m2"}
    /\ registry["m2"] = "sm" /\ registry["m1"] = "peer"

\* C16 (as claimed): a Build(id) call with an id that is in the registry returns
\* no machine and the already-exists error, leaves the registry as it is, and
\* leaves the identifier, the readiness and the graph of the machine registered
\* under id as they are; an unused id can still be registered afterwards.
C16_FailedBuildChangesNothing ==
    (Returned("Build") /\ lastCall.machineId \in DOMAIN lastCall.before.registry) =>
        LET before == lastCall.before
            prev == before.registry[lastCall.machineId]
        IN /\ lastCall.err = StateMachineAlreadyExist
           /\ lastCall.machine = Nil /\ ~lastCall.ok
           /\ registry = before.registry
           /\ prev = "sm" => (id = before.id /\ ready = before.ready
                              /\ stateMap = before.stateMap)
           /\ prev = "peer" => peer = before.peer
           /\ \A m \in RegistryIds \ DOMAIN registry, machine \in Machines :
                 RegisterStateMachineResult(registry, m, machine).err = NoError

\* the registry operations
RegistryOps == {"RegisterStateMachine", "GetStateMachine", "ListStateMachines",
                "RemoveStateMachine"}

\* C18: every registry call acts on the table id -> machine as it is when the
\* call is made: RegisterStateMachine fails exactly when id is present and
\* otherwise adds id -> machine; GetStateMachine succeeds exactly when id is
\* present with a machine of the requested type and returns the machine the
\* table holds for id; RemoveStateMachine answers true exactly when id was
\* present and deletes it, after which GetStateMachine(id) fails and
\* RegisterStateMachine(id, .) succeeds; ListStateMachines returns each present
\* id once and nothing else; no call changes any other entry.
C18_RegistryIsTable ==
    [][lastCall'.op \in RegistryOps =>
        LET k == lastCall'.machineId
            present == k \in DOMAIN registry
        IN /\ lastCall'.op = "RegisterStateMachine" =>
                 /\ lastCall'.err # NoError <=> present
                 /\ present => (lastCall'.err = StateMachineAlreadyExist
                                /\ registry' = registry)
                 /\ ~present =>
                       /\ DOMAIN registry' = DOMAIN registry \cup {k}
                       /\ registry'[k] = lastCall'.machine
                       /\ \A m \in DOMAIN registry : registry'[m] = registry[m]
           /\ lastCall'.op = "GetStateMachine" =>
                 /\ lastCall'.err = NoError <=>
                       (present /\ MachineType(registry[k]) = lastCall'.type)
                 /\ lastCall'.err = NoError => lastCall'.machine = registry[k]
                 /\ lastCall'.err # NoError =>
                       (lastCall'.err = StateMachineNotFound /\ lastCall'.machine = Nil)
                 /\ registry' = registry
           /\ lastCall'.op = "RemoveStateMachine" =>
                 /\ lastCall'.ok <=> present
                 /\ DOMAIN registry' = DOMAIN registry \ {k}
                 /\ \A m \in DOMAIN registry' : registry'[m] = registry[m]
                 /\ \A type \in MachineTypes :
                       GetStateMachineResult(registry', k, type).err = StateMachineNotFound
                 /\ \A machine \in Machines :
                       RegisterStateMachineResult(registry', k, machine).err = NoError
           /\ lastCall'.op = "ListStateMachines" =>
                 /\ {lastCall'.rets[i] : i \in 1..Len(lastCall'.rets)} = DOMAIN registry
                 /\ Len(lastCall'.rets) = Cardinality(DOMAIN registry)
                 /\ registry' = registry
    ]_vars

\* C18 witness: "m1" has been removed while "m2" stays registered
C18_Witness ==
    /\ lastCall.op = "RemoveStateMachine" /\ lastCall.ok
    /\ lastCall.machineId = "m1"
    /\ DOMAIN registry = {"m2"}

\* C17 (as claimed): once Build has returned, no step of a public operation
\* (firing, Verify, registry calls, further chains on the same builder) changes
\* the state table or a transition list of the machine.
C17_GraphFrozenAfterBuild ==
    [][ready => stateMap' = stateMap]_vars

\* goroutine t is in the body of a reading call: its next step reads the state
\* table and the transition lists of state x
ReadsTransitionsOf(t, x) ==
    /\ threads[t].op \in ReaderOps /\ threads[t].pc = "body"
    /\ threads[t].state = x \/ threads[t].op \in DiagramOps
\* the next step of goroutine u writes the transition lists of state x
WritesTransitionsOf(u, x) ==
    /\ threads[u].pc \in {"AddTransition.make", "AddTransition.made", "AddTransition.assign",
                          "AddTransition.assigned"} \cup StorePcs \cup AppendedPcs
    /\ threads[u].state = x
\* the next step of goroutine u writes the state table
WritesStateTable(u) == threads[u].pc = "GetState"

\* C19 (as claimed): whenever one goroutine is about to read the state table or
\* a state's transition lists and another is about to write the same, the
\* writer holds the machine's lock exclusively (so that the reader cannot be
\* where it is): no read of the graph runs unprotected against a write.
C19_WritesExcludedByLock ==
    \A t \in Threads : \A u \in Threads \ {t} :
        /\ (threads[t].op \in ReaderOps /\ threads[t].pc = "body" /\ WritesStateTable(u)) =>
              (mutex.writer = u /\ t \notin mutex.readers)
        /\ \A x \in StateIds :
              (ReadsTransitionsOf(t, x) /\ WritesTransitionsOf(u, x)) =>
                 (mutex.writer = u /\ t \notin mutex.readers)

\* C20: while a FireEvent is running its effect under the read lock and no
\* goroutine holds or waits for the write lock, every other goroutine that is
\* in FireEvent, FireParallelEvent, Verify or a diagram generator can take its
\* next step, whichever it is: acquire the read lock, run its body, run its
\* effect, release the lock and return.
C20_ReadersRunTogether ==
    \A t \in Threads :
        (threads[t].op = "FireEvent" /\ threads[t].pc = "effect"
            /\ mutex.writer = Nil /\ mutex.waiting = {}) =>
            \A u \in Threads \ {t} :
                threads[u].op \in ReaderOps =>
                    /\ threads[u].pc = "RLock" => ENABLED RLock(u)
                    /\ threads[u].pc = "body" => ENABLED ReadBody(u)
                    /\ threads[u].pc = "effect" => ENABLED EffectReturns(u)
                    /\ threads[u].pc = "RUnlock" => ENABLED RUnlock(u)

\* C20 witness: t1 is running the effect of its FireEvent while t2 has gone
\* through the body of its own FireEvent and is about to return; both hold the
\* read lock
C20_Witness ==
    /\ threads["t1"].op = "FireEvent" /\ threads["t1"].pc = "effect"
    /\ threads["t2"].op = "FireEvent" /\ threads["t2"].pc = "RUnlock"
    /\ threads["t2"].err = NoError /\ threads["t2"].ret = "B"
    /\ mutex.readers = {"t1", "t2"}

\* the call of goroutine t has its result: the body has run under the read lock
HasResult(t) == threads[t].op \in FiringOps /\ threads[t].pc \in {"effect", "RUnlock"}
\* the frames a and b hold the same results
SameResult(a, b) == a.ret = b.ret /\ a.rets = b.rets /\ a.ok = b.ok /\ a.err = b.err

\* C26: no step of a FireEvent, FireParallelEvent or Verify call changes the
\* state table (with its transition lists), the identifier, the readiness flag
\* or the registry; and with pure guards and effects two calls with the same
\* (state, event, payload) return the same result: a call returns what an
\* earlier call with these arguments returned, whatever firings returned in
\* between, and two calls that run at the same time return the same.
C26_FiringIsStateless ==
    /\ [](\A t \in Threads :
            HasResult(t) =>
               /\ SameCall(lastCall, threads[t]) => SameResult(lastCall, threads[t])
               /\ \A u \in Threads \ {t} :
                     (HasResult(u) /\ SameCall(threads[u], threads[t])) =>
                        SameResult(threads[u], threads[t]))
    /\ [][(\E t \in Threads : threads[t].op \in FiringOps \/ threads'[t].op \in FiringOps) =>
             (stateMap' = stateMap /\ ready' = ready /\ id' = id /\ registry' = registry)]_vars

\* C26 witness: a FireEvent(A, E1, p) has returned B, a call with other
\* arguments has returned since, and now two goroutines are in FireEvent(A, E1,
\* p) at the same time, both under the read lock, one in the effect and one
\* about to return, both with the result B
C26_Witness ==
    \E t \in Threads : \E u \in Threads \ {t} :
       /\ lastCall.op = "FireEvent" /\ lastCall.state = "A" /\ lastCall.ctx.Amount = 1
       /\ lastCall.err = NoError /\ lastCall.ret = "B" /\ lastCall.i = 1
       /\ HasResult(t) /\ SameCall(lastCall, threads[t])
       /\ HasResult(u) /\ SameCall(lastCall, threads[u])
       /\ threads[t].pc = "effect" /\ threads[u].pc = "RUnlock"
       /\ threads[t].ret = "B" /\ threads[u].ret = "B"
       /\ mutex.readers = {t, u}
       /\ stateMap["A"].eventTransitions["E1"][1].Condition = "AmountPositive"

\* the errors FireEvent returns before it looks at any transition
StructuralErrors == {StateMachineNotReady, StateNotFound, TransitionNotFound}

\* C27: Verify(s,e) is false exactly when FireEvent(s,e,p) fails, for every
\* payload p, with not-ready, StateNotFound or TransitionNotFound; when
\* Verify(s,e) is true FireEvent(s,e,p) fails with none of these three errors
\* (it may still fail with ConditionNotMet, the internal-transition error or
\* ActionExecutionFailed).
C27_VerifyFalseIffStructuralFailure ==
    /\ lastCall.op = "Verify" =>
          \A p \in Contexts :
             LET f == FireEventResult(stateMap, ready, lastCall.state, lastCall.event, p)
             IN lastCall.ok <=> f.err \notin StructuralErrors
    /\ IsFire =>
          (lastCall.err \in StructuralErrors
              <=> ~VerifyResult(stateMap, ready, lastCall.state, lastCall.event))

\* C27 witness: Verify is true and FireEvent on the same (s,e) fails with
\* ConditionNotMet on one payload and takes a transition on another
C27_Witness ==
    /\ lastCall.op = "Verify" /\ lastCall.ok
    /\ \E p \in Contexts :
          FireEventResult(stateMap, ready, lastCall.state, lastCall.event, p).err
             = ConditionNotMet
    /\ \E p \in Contexts :
          FireEventResult(stateMap, ready, lastCall.state, lastCall.event, p).err = NoError

\* C27 second case: Verify is true and FireEvent fails with the
\* internal-transition error or with a wrapped effect error
C27_VerifiedButFails ==
    /\ lastCall.op = "Verify" /\ lastCall.ok
    /\ \E p \in Contexts :
          FireEventResult(stateMap, ready, lastCall.state, lastCall.event, p).err
             = InternalTransitionInvariantViolated
    /\ \E p \in Contexts :
          FireEventResult(stateMap, ready, lastCall.state, lastCall.event, p).err
             = ActionExecutionFailed(ErrEffect)

\* C28: an internal transition of s to s on e that is the first of (s,e) whose
\* guard is absent or true on the payload is taken by FireEvent(s,e,p): its
\* effect (if any) runs once with from = to = s, and unless the effect fails the
\* call returns s. The builder registers an internal transition with source #
\* target like any other (registration has no error result, Verify answers true
\* for it); it fails when it is fired, with the internal-transition error and
\* without running its effect.
C28_InternalTakenInPlace ==
    /\ (IsFire /\ ready /\ ~lastCall.ctx.Flaky /\ Matched(CallTransitions, lastCall.ctx) # {}) =>
          LET T == CallTransitions
              i == Min(Matched(T, lastCall.ctx))
              first == T[i]
          IN /\ (first.TransType = Internal /\ first.Source = first.Target) =>
                   /\ first.Action = Nil => Execs = {}
                   /\ first.Action # Nil =>
                         /\ Cardinality(Execs) = 1
                         /\ \A k \in Execs :
                               /\ lastCall.log[k].idx = i
                               /\ lastCall.log[k].from = lastCall.state
                               /\ lastCall.log[k].to = lastCall.state
                   /\ first.Action # "Fail" =>
                         (lastCall.err = NoError /\ lastCall.ret = lastCall.state)
             /\ InvalidInternal(first) =>
                   (lastCall.err = InternalTransitionInvariantViolated /\ Execs = {})
    /\ Idle =>
       \A s \in StateIds : \A t \in StateIds \ {s}, e \in Events, a \in Actions :
          LET sm2 == PerformResult(stateMap, Internal, s, t, e, Nil, a)
              L == GetEventTransitions(sm2[s], e)
              before == IF s \in DOMAIN stateMap
                        THEN GetEventTransitions(stateMap[s], e) ELSE <<>>
          IN /\ L = Append(before, [Source |-> s, Target |-> t, Event |-> e,
                                    Condition |-> Nil, Action |-> a,
                                    TransType |-> Internal])
             /\ VerifyResult(sm2, TRUE, s, e)

\* C28 witness: FireEvent took a guarded internal transition of A to A, ran its
\* effect once and returned A
C28_Witness ==
    /\ IsFire /\ ready /\ ~lastCall.ctx.Flaky
    /\ Len(CallTransitions) >= 1
    /\ CallTransitions[1].TransType = Internal
    /\ CallTransitions[1].Source = CallTransitions[1].Target
    /\ CallTransitions[1].Condition # Nil /\ CallTransitions[1].Action = "Ok"
    /\ lastCall.err = NoError /\ lastCall.ret = lastCall.state
    /\ Cardinality(Execs) = 1

\* C28 second case: an internal transition A to B was registered, the machine
\* was built, Verify would answer true and FireEvent failed on it
C28_MismatchRegisteredFailsWhenFired ==
    /\ IsFire /\ ready
    /\ Len(CallTransitions) = 1 /\ InvalidInternal(CallTransitions[1])
    /\ VerifyResult(stateMap, ready, lastCall.state, lastCall.event)
    /\ lastCall.err = InternalTransitionInvariantViolated

\* C29: FireParallelEvent works in two phases. Every guard of the transitions
\* of (s,e) is evaluated, once and in registration order, before the first
\* effect is executed; the effects that are executed belong to transitions the
\* first phase found matching and run in registration order. No guard is
\* evaluated after an effect, so no effect can change which transitions match.
C29_GuardsBeforeEffects ==
    IsParallel =>
        LET T == CallTransitions
            log == lastCall.log
            guarded == {i \in 1..Len(T) : T[i].Condition # Nil}
        IN /\ \A g \in Guards : \A x \in Execs : g < x
           /\ \A g \in Guards : \A h \in Guards : g < h => log[g].idx < log[h].idx
           /\ \A x \in Execs : \A y \in Execs : x < y => log[x].idx < log[y].idx
           /\ ready => {log[g].idx : g \in Guards} = guarded
           /\ \A x \in Execs : log[x].idx \in SeenMatching
           /\ Execs # {} => Guards = 1..Cardinality(guarded)

\* C29 witness: two guarded transitions with effects, both matched: the trace
\* of the call is guard 1, guard 2, effect 1, effect 2
C29_Witness ==
    /\ IsParallel /\ ready /\ lastCall.err = NoError
    /\ Len(lastCall.log) = 4
    /\ lastCall.log[1].kind = "guard" /\ lastCall.log[1].idx = 1
    /\ lastCall.log[2].kind = "guard" /\ lastCall.log[2].idx = 2
    /\ lastCall.log[3].kind = "exec" /\ lastCall.log[3].idx = 1
    /\ lastCall.log[4].kind = "exec" /\ lastCall.log[4].idx = 2

\* the Condition / Action whose method is the function a func-form value holds
AsInterface(v) == IF v \in FuncValues THEN FuncOf(v) ELSE v
\* the graph sm with every transition registered in function form registered
\* in interface form instead
InterfaceForm(sm) ==
    [s \in DOMAIN sm |->
        [sm[s] EXCEPT !.eventTransitions =
            [e \in DOMAIN sm[s].eventTransitions |->
                [i \in 1..Len(sm[s].eventTransitions[e]) |->
                    LET t == sm[s].eventTransitions[e][i]
                    IN [t EXCEPT !.Condition = AsInterface(t.Condition),
                                 !.Action = AsInterface(t.Action)]]]]]
\* no transition of sm holds a nil function as its guard or effect
NoNilFunc(sm) ==
    \A k \in TransitionKeys(sm) :
       LET t == sm[k[1]].eventTransitions[k[2]][k[3]]
       IN ~CallPanics(t.Condition) /\ ~CallPanics(t.Action)

\* C24: a transition registered with WhenFunc(f) / PerformFunc(g), f and g
\* functions, behaves under FireEvent, FireParallelEvent and Verify exactly as
\* the same transition registered with When(c) / Perform(a) where c.IsSatisfied
\* is f and a.Execute is g: same result, same error, same guard evaluations and
\* effect executions. Neither form has precedence: the guard a chain registers
\* is the one of its last When or WhenFunc call.
C24_FuncFormsBehaveAsInterfaceForms ==
    /\ (lastCall.op \in FiringOps /\ NoNilFunc(stateMap)) =>
          LET c == lastCall
              tw == InterfaceForm(stateMap)
              f == FireEventResult(tw, ready, c.state, c.event, c.ctx)
              g == FireParallelEventResult(tw, ready, c.state, c.event, c.ctx)
          IN /\ c.op = "FireEvent" =>
                   (c.ret = f.state /\ c.err = f.err /\ c.log = f.env.log)
             /\ c.op = "FireParallelEvent" =>
                   (c.rets = g.states /\ c.err = g.err /\ c.log = g.env.log)
             /\ c.op = "Verify" => c.ok = VerifyResult(tw, ready, c.state, c.event)
    /\ chain.whenForm = "When" => chain.condition \notin FuncValues
    /\ chain.whenForm = "WhenFunc" => chain.condition \in FuncValues

\* C24 witness: FireEvent took a transition whose guard came from WhenFunc and
\* whose effect came from PerformFunc, registered before one in interface form
C24_Witness ==
    /\ IsFire /\ ready /\ lastCall.err = NoError /\ Execs # {} /\ Guards # {}
    /\ Len(CallTransitions) = 2
    /\ CallTransitions[1].Condition = ConditionFunc("AmountPositive")
    /\ CallTransitions[1].Action = ActionFunc("Ok")
    /\ CallTransitions[2].Condition = "AmountPositive"
    /\ CallTransitions[2].Action = "Ok"

\* C25: every FireEvent, FireParallelEvent and Verify call on a machine built
\* with the builder returns a result or an error and never panics, whatever was
\* registered: unknown states or events, nil guards and effects given through
\* When, WhenFunc, Perform or PerformFunc.
C25_NeverPanics ==
    lastCall.op \in FiringOps => lastCall.err # Panic

\* the strings of parts with sep written between two consecutive ones
RECURSIVE JoinWith(_, _)
JoinWith(sep, parts) ==
    IF Len(parts) = 0 THEN ""
    ELSE IF Len(parts) = 1 THEN parts[1]
    ELSE parts[1] \o sep \o JoinWith(sep, Tail(parts))
RECURSIVE SumLen(_)
SumLen(parts) == IF Len(parts) = 0 THEN 0 ELSE Len(Head(parts)) + SumLen(Tail(parts))

\* C22: for a fixed graph and fixed iteration orders, GenerateDiagram with no
\* format returns the text of GenerateDiagram(PlantUML), and
\* GenerateDiagram(f1,...,fk) returns the texts of GenerateDiagram(f1), ...,
\* GenerateDiagram(fk) in the caller's order with exactly one "\n\n" between
\* two consecutive ones and nothing before the first or after the last.
C22_DiagramIsConcatenation ==
    Returned("GenerateDiagram") =>
        LET fs == lastCall.formats
            os == lastCall.orders
            single == [k \in 1..Len(fs) |-> RenderFormat(stateMap, id, fs[k], os[k])]
        IN /\ Len(fs) = 0 =>
                 lastCall.text = RenderFormat(stateMap, id, PlantUML, os[1])
           /\ Len(fs) > 0 =>
                 /\ lastCall.text = JoinWith("\n\n", single)
                 /\ Len(lastCall.text) = SumLen(single) + 2 * (Len(fs) - 1)

\* C22 witness: a Markdown table followed by PlantUML of a graph of two states
\* with a transition, the two renderings visiting the states in different orders
C22_Witness ==
    /\ Returned("GenerateDiagram")
    /\ lastCall.formats = <<MarkdownTable, PlantUML>>
    /\ DOMAIN stateMap = {"A", "B"} /\ id = "m1"
    /\ lastCall.orders[1][1] # lastCall.orders[2][1]
    /\ Len(lastCall.text) > 100

\* C22 second case: the call without a format
C22_DefaultIsPlantUML ==
    /\ Returned("GenerateDiagram") /\ lastCall.formats = <<>>
    /\ DOMAIN stateMap = {"A", "B"}
    /\ lastCall.text = generatePlantUML(stateMap, id, lastCall.orders[1][1],
                                        lastCall.orders[1][2], lastCall.orders[1][3])

\* goroutine t holds the registry lock
HoldsRegistryLock(t) == t \in mutex.registry.readers \/ mutex.registry.writer = t
\* goroutine t is inside a call that holds the machine's lock
HoldsMachineLock(t) == t \in mutex.readers \/ mutex.writer = t

\* C21: the registry functions take the registry's lock only. Whatever the
\* state of the machine's lock (a FireEvent may hold it inside an effect that
\* does not return), a registry function whose turn it is for the registry lock
\* acquires it, and one that holds it runs to its return; no goroutine that
\* holds the registry lock is waiting for the machine's lock or holds it.
C21_RegistryIndependentOfMachineLock ==
    \A t \in Threads :
       /\ (threads[t].pc = "RegistryLock" /\ threads[t].op \in RegistryReaderOps
              /\ CanRLock(mutex.registry)) => ENABLED RegistryRLock(t)
       /\ (threads[t].pc = "RegistryLock" /\ threads[t].op \in RegistryWriterOps)
              => ENABLED RegistryLock(t)
       /\ (threads[t].pc = "RegistryLockWait" /\ CanLock(mutex.registry))
              => ENABLED RegistryLockAcquired(t)
       /\ threads[t].pc = "RegistryBody" =>
              (HoldsRegistryLock(t) /\ ENABLED RegistryBody(t))
       /\ HoldsRegistryLock(t) =>
              /\ threads[t].pc = "RegistryBody"
              /\ ~HoldsMachineLock(t)
              /\ t \notin mutex.waiting

\* C21 witness: a goroutine is inside RemoveStateMachine under the registry
\* lock while the other one is inside the effect of a FireEvent under the
\* machine's read lock
C21_Witness ==
    \E t \in Threads : \E u \in Threads \ {t} :
       /\ threads[t].pc = "RegistryBody" /\ threads[t].op = "RemoveStateMachine"
       /\ mutex.registry.writer = t
       /\ threads[u].op = "FireEvent" /\ threads[u].pc = "effect"
       /\ u \in mutex.readers

\* C21 second case: a registry reader gets the registry lock while a writer
\* waits for the machine's lock behind a running effect
C21_ReaderWhileMachineWriterWaits ==
    \E t \in Threads : \E u \in Threads \ {t} :
       /\ threads[t].pc = "RegistryBody" /\ threads[t].op = "GetStateMachine"
       /\ threads[u].pc = "LockWait" /\ u \in mutex.waiting

FiringThreadOps == {"FireEvent", "FireParallelEvent", "Verify"}

\* C23: no step of ShowStateMachine or of a diagram generator changes the
\* state table, a transition list, the identifier, the readiness flag (or the
\* registry, or anything of another goroutine's call); and a firing call or
\* Verify whose body runs while a rendering holds the read lock returns what
\* the call returns on that machine.
C23_RenderingChangesNothing ==
    [][\A t \in Threads :
          /\ ((threads[t].op \in DiagramOps \/ threads'[t].op \in DiagramOps)
                 /\ threads'[t] # threads[t]) =>
                /\ stateMap' = stateMap /\ ready' = ready /\ id' = id
                /\ registry' = registry
                /\ \A u \in Threads \ {t} : threads'[u] = threads[u]
          /\ (threads[t].op \in FiringThreadOps /\ threads[t].pc = "body"
                 /\ threads'[t].pc # "body"
                 /\ \E u \in Threads \ {t} :
                       threads[u].op \in DiagramOps /\ u \in mutex.readers) =>
                LET c == threads'[t]
                    f == FireEventResult(stateMap', ready', c.state, c.event, c.ctx)
                    g == FireParallelEventResult(stateMap', ready', c.state, c.event, c.ctx)
                IN /\ c.op = "FireEvent" => (c.ret = f.state /\ c.err = f.err)
                   /\ c.op = "FireParallelEvent" => (c.rets = g.states /\ c.err = g.err)
                   /\ c.op = "Verify" =>
                         c.ok = VerifyResult(stateMap', ready', c.state, c.event)]_vars

\* C23 witness: a rendering holds the read lock while a FireEvent that took
\* the transition to B runs its effect
C23_Witness ==
    \E t \in Threads : \E u \in Threads \ {t} :
       /\ threads[t].op \in DiagramOps /\ threads[t].pc \in {"body", "RUnlock"}
       /\ t \in mutex.readers
       /\ threads[u].op = "FireEvent" /\ threads[u].pc = "effect"
       /\ threads[u].err = NoError /\ threads[u].ret = "B"
       /\ u \in mutex.readers

\* sync.RWMutex.Lock excludes: while a firing call holds the read lock no
\* goroutine is inside SetReady or GetState under the write lock
NoWriterDuringFiring ==
    \A t \in Threads :
       (threads[t].op \in {"FireEvent", "FireParallelEvent"}
           /\ threads[t].pc \in {"body", "effect", "RUnlock"}) =>
          /\ t \in mutex.readers
          /\ mutex.writer = Nil
          /\ \A u \in Threads : threads[u].pc \notin {"SetReady", "GetState"}

\* C30: from the moment a FireEvent or FireParallelEvent call holds the read
\* lock (before its readiness check) to its return (after its last effect) no
\* SetReady and no GetState on the machine takes effect: the readiness flag and
\* the set of states of the state table do not change, and no goroutine is
\* inside SetReady or GetState.
C30_FiringIsCriticalSection ==
    /\ []NoWriterDuringFiring
    /\ [][(\E t \in Threads :
              /\ threads[t].op \in {"FireEvent", "FireParallelEvent"}
              /\ threads[t].pc \in {"body", "effect", "RUnlock"}) =>
             (ready' = ready /\ DOMAIN stateMap' = DOMAIN stateMap)]_vars

\* C30 witness: SetReady(false) waits for the write lock while a FireEvent that
\* passed the readiness check runs its effect
C30_Witness ==
    \E t \in Threads : \E u \in Threads \ {t} :
       /\ threads[t].op = "FireEvent" /\ threads[t].pc = "effect"
       /\ threads[t].err = NoError
       /\ threads[u].op = "SetReady" /\ ~threads[u].ok
       /\ threads[u].pc = "LockWait" /\ u \in mutex.waiting
       /\ ready

\* C30 second case: GetState of a state that is not in the table waits behind
\* a firing call
C30_GetStateWaits ==
    \E t \in Threads : \E u \in Threads \ {t} :
       /\ threads[t].op = "FireParallelEvent" /\ threads[t].pc = "effect"
       /\ threads[u].op = "GetState" /\ threads[u].pc = "LockWait"
       /\ threads[u].state \notin DOMAIN stateMap

\* ------------------------------------------------------------------- C39
\* how many times the call's trace evaluates the guard of the transition at
\* position i of the resolved list
GuardEvaluationsOf(log, i) ==
    Cardinality({k \in GuardsIn(log) : log[k].idx = i})

\* C39: during one FireEvent call the guard of each candidate transition is
\* evaluated at most once, and the guards of the transitions after the chosen
\* one are not evaluated at all.
C39_GuardAtMostOncePerCandidate ==
    lastCall.op = "FireEvent" =>
        LET T == TransitionsOf(stateMap, lastCall.state, lastCall.event)
            log == lastCall.log
        IN /\ \A i \in 1..Len(T) : GuardEvaluationsOf(log, i) <= 1
           /\ \A k \in ExecsIn(log) : \A i \in 1..Len(T) :
                 i > log[k].idx => GuardEvaluationsOf(log, i) = 0

\* ------------------------------------------------------------------- C37
\* the transitions of (s, e) have effects that all succeed and hold no
\* internal transition whose source differs from its target
AllTakeable(T) ==
    \A i \in 1..Len(T) : T[i].Action \in {Nil, "Ok"} /\ ~InvalidInternal(T[i])

\* C37: for a pure guard, effects that all succeed and no internal transition
\* with source # target among the transitions of (s, e), FireEvent(s, e, p) and
\* FireParallelEvent(s, e, p) succeed or fail together with the same error,
\* and on success the state FireEvent returns is the first element of the list
\* FireParallelEvent returns.
C37_FireAndParallelAgree ==
    (lastCall.op \in {"FireEvent", "FireParallelEvent"} /\ ~lastCall.ctx.Flaky
       /\ AllTakeable(TransitionsOf(stateMap, lastCall.state, lastCall.event))) =>
        LET one == IF lastCall.op = "FireEvent"
                   THEN [state |-> lastCall.ret, err |-> lastCall.err]
                   ELSE FireEventResult(stateMap, ready, lastCall.state,
                                        lastCall.event, lastCall.ctx)
            all == IF lastCall.op = "FireParallelEvent"
                   THEN [states |-> lastCall.rets, err |-> lastCall.err]
                   ELSE FireParallelEventResult(stateMap, ready, lastCall.state,
                                                lastCall.event, lastCall.ctx)
        IN /\ one.err = all.err
           /\ one.err = NoError => (Len(all.states) >= 1 /\ one.state = all.states[1])
           /\ one.err # NoError => (one.state = zeroState /\ all.states = <<>>)

\* a FireEvent that skipped the first transition and took the second while
\* FireParallelEvent on the same arguments returns that second target alone
C37_Witness ==
    /\ lastCall.op = "FireEvent" /\ ~lastCall.ctx.Flaky /\ lastCall.err = NoError
    /\ LET T == TransitionsOf(stateMap, lastCall.state, lastCall.event)
       IN /\ Len(T) = 2 /\ AllTakeable(T)
          /\ T[1].Condition # Nil /\ lastCall.ctx.Amount = 0
          /\ T[1].Target # T[2].Target
          /\ lastCall.ret = T[2].Target
          /\ FireParallelEventResult(stateMap, ready, lastCall.state, lastCall.event,
                                     lastCall.ctx).states = <<T[2].Target>>

\* both calls fail together with ConditionNotMet
C37_WitnessBothFail ==
    /\ lastCall.op = "FireParallelEvent" /\ lastCall.err = ConditionNotMet
    /\ AllTakeable(TransitionsOf(stateMap, lastCall.state, lastCall.event))
    /\ FireEventResult(stateMap, ready, lastCall.state, lastCall.event,
                       lastCall.ctx).err = ConditionNotMet

\* ------------------------------------------------------------------- C35
\* s is the target of a registered transition and the source of none
TargetOnly(sm, s) ==
    /\ \E k \in TransitionKeys(sm) : sm[k[1]].eventTransitions[k[2]][k[3]].Target = s
    /\ \A e \in ChainEvents : TransitionsOf(sm, s, e) = <<>>

\* C35: a state referenced only as a transition target is in the built
\* machine's state table: FireEvent and FireParallelEvent from it fail with
\* TransitionNotFound, not StateNotFound, for every event, and Verify on it
\* returns false.
C35_TargetOnlyStateIsInTable ==
    \A s \in StateIds : TargetOnly(stateMap, s) =>
        /\ s \in DOMAIN stateMap
        /\ (ready /\ lastCall.state = s) =>
              /\ lastCall.op = "FireEvent" =>
                    lastCall.err = TransitionNotFound /\ lastCall.ret = zeroState
              /\ lastCall.op = "FireParallelEvent" =>
                    lastCall.err = TransitionNotFound /\ lastCall.rets = <<>>
              /\ lastCall.op = "Verify" => ~lastCall.ok

\* a firing from the target-only state "B" of a built machine has failed
C35_Witness ==
    /\ ready /\ TargetOnly(stateMap, "B")
    /\ lastCall.op = "FireEvent" /\ lastCall.state = "B"
    /\ lastCall.err = TransitionNotFound

\* Verify on a target-only state of a built machine has answered false
C35_VerifyFalse ==
    /\ ready /\ TargetOnly(stateMap, "B")
    /\ lastCall.op = "Verify" /\ lastCall.state = "B" /\ ~lastCall.ok

\* ------------------------------------------------------------------- C36
\* every key of the state table maps to the state of that identifier, and
\* every transition in the list of (s, e) has source s, event e and a target
\* that is a state of the table
WellFormed(sm) ==
    /\ \A k \in DOMAIN sm : sm[k].id = k
    /\ \A k \in TransitionKeys(sm) :
          LET t == sm[k[1]].eventTransitions[k[2]][k[3]]
          IN t.Source = k[1] /\ t.Event = k[2] /\ t.Target \in DOMAIN sm
\* what a transition is from the moment AddTransition has made it (Perform
\* writes its Condition and Action afterwards)
AsAdded(t) == [Source |-> t.Source, Target |-> t.Target, Event |-> t.Event,
               TransType |-> t.TransType]
\* a state of the table stays the state of its key: it keeps the transitions
\* it has, in their order
SameStates(sm, sm2) ==
    \A k \in DOMAIN sm :
        /\ k \in DOMAIN sm2
        /\ \A e \in ChainEvents :
              LET old == GetEventTransitions(sm[k], e)
                  new == GetEventTransitions(sm2[k], e)
              IN /\ Len(old) <= Len(new)
                 /\ \A i \in 1..Len(old) : AsAdded(new[i]) = AsAdded(old[i])
                 /\ \A i \in 1..Len(old) - 1 : new[i] = old[i]

\* C36: after any sequence of builder operations the graph is well formed:
\* each key k of the state table maps to one state whose identifier is k
\* (a repeated reference to k returns the same state), and every transition in
\* state s's list for event e has source s, event e and a target that is a
\* state of the same table.
C36_GraphWellFormed ==
    /\ []WellFormed(stateMap)
    /\ [][SameStates(stateMap, stateMap')]_vars

\* a FromAmong chain has registered two transitions whose sources and targets
\* are the two states of the table, one of them referenced three times
C36_Witness ==
    /\ Returned("MultipleTransitionBuilder.Perform")
    /\ Len(lastCall.rets) = 2 /\ lastCall.rets[1] # lastCall.rets[2]
    /\ DOMAIN stateMap = StateIds
    /\ Cardinality(TransitionKeys(stateMap)) = 2
    /\ WellFormed(stateMap)

\* ------------------------------------------------------------------- C38
\* every entry of the registry reg maps an id to a machine of that identifier,
\* smId and peerId being the identifiers the two machines carry
RegistryIdsMatch(reg, smId, peerId) ==
    \A m \in DOMAIN reg : (IF reg[m] = "sm" THEN smId ELSE peerId) = m

\* C38: for every entry id -> machine of the registry the machine's own
\* identifier is id, after any sequence of Build and RemoveStateMachine calls,
\* a second Build on the same builder and a Build that fails on a taken id
\* included: when the correspondence holds as a Build or RemoveStateMachine
\* call begins, it holds when the call returns.
C38_RegistryIdIsMachineId ==
    [][/\ (lastCall'.op = "Build" /\ lastCall'.pc = ""
             /\ RegistryIdsMatch(lastCall'.before.registry, lastCall'.before.id,
                                 lastCall'.before.peer.id))
          => RegistryIdsMatch(registry', id', peer'.id)
       /\ (lastCall'.op = "RemoveStateMachine" /\ RegistryIdsMatch(registry, id, peer.id))
          => RegistryIdsMatch(registry', id', peer'.id)
      ]_vars

\* ------------------------------------------------------------------- C31
\* goroutine t is in a call of SetReady or GetState that an effect has made
NestedExclusive(t) ==
    threads[t].callers # <<>> /\ threads[t].op \in NestedExclusiveOps

\* C31: an effect that, while running inside FireEvent or FireParallelEvent,
\* calls an operation that takes the same machine's exclusive lock (GetState or
\* SetReady) never returns: the call never gets the lock, the firing call stays
\* where it is and its shared lock is never released.
C31_ExclusiveReentryDeadlocks ==
    /\ [](\A t \in Threads : NestedExclusive(t) =>
             /\ threads[t].pc \in {"Lock", "LockWait"}
             /\ t \in mutex.readers
             /\ mutex.writer # t)
    /\ [][\A t \in Threads : NestedExclusive(t) =>
             /\ NestedExclusive(t)'
             /\ threads'[t].callers = threads[t].callers]_vars

\* the effect of a FireEvent call waits for the write lock of SetReady while
\* its own call holds the read lock, and nothing else holds or awaits the lock
C31_Witness ==
    \E t \in Threads :
        /\ NestedExclusive(t) /\ threads[t].op = "SetReady"
        /\ threads[t].pc = "LockWait"
        /\ threads[t].callers[1].op = "FireEvent"
        /\ mutex.readers = {t} /\ mutex.waiting = {t} /\ mutex.writer = Nil
        /\ \A u \in Threads \ {t} : threads[u].pc = "idle"

\* the same for GetState called from the effect of a FireParallelEvent call
C31_GetStateFromParallel ==
    \E t \in Threads :
        /\ NestedExclusive(t) /\ threads[t].op = "GetState"
        /\ threads[t].pc = "LockWait"
        /\ threads[t].callers[1].op = "FireParallelEvent"

\* ------------------------------------------------------------------- C32
\* goroutine t is in a call of a shared-lock operation that an effect has made
NestedShared(t) ==
    threads[t].callers # <<>> /\ threads[t].op \in NestedSharedOps

\* C32: an effect that re-enters only shared-lock operations of the same
\* machine returns in every interleaving, a request for the exclusive lock by
\* another goroutine between the outer and the nested RLock included: while
\* such a nested call is in progress some goroutine can take a step (in a
\* state where none can, the nested call never returns).
C32_SharedReentryReturns ==
    (\E t \in Threads : NestedShared(t)) => ENABLED NextReentrant

\* ------------------------------------------------------------------- C33
\* goroutine t has a Build call that has returned
BuildReturned(t) == threads[t].pc = "Build.return"

\* C33: when two builders call Build with the same id concurrently, the id
\* being unregistered when both calls began, exactly one call succeeds and the
\* other fails with StateMachineAlreadyExist, and the registry maps the id to
\* the winner's machine.
C33_OneConcurrentBuildWins ==
    \A t \in Threads : \A u \in Threads \ {t} :
        (/\ BuildReturned(t) /\ BuildReturned(u)
         /\ threads[t].fresh /\ threads[u].fresh
         /\ threads[t].machineId = threads[u].machineId
         /\ threads[t].builder # threads[u].builder) =>
            /\ {threads[t].err, threads[u].err} = {NoError, StateMachineAlreadyExist}
            /\ threads[t].err = NoError =>
                  /\ threads[t].machineId \in DOMAIN registry
                  /\ registry[threads[t].machineId] = threads[t].builder
                  /\ \A m \in DOMAIN registry : registry[m] # threads[u].builder

\* both calls have returned; the first builder's call was the one to fail
C33_Witness ==
    /\ BuildReturned("t1") /\ BuildReturned("t2")
    /\ threads["t1"].fresh /\ threads["t2"].fresh
    /\ threads["t1"].builder = "sm" /\ threads["t2"].builder = "peer"
    /\ threads["t1"].err = StateMachineAlreadyExist /\ threads["t2"].err = NoError
    /\ registry = [m \in {"m1"} |-> "peer"]

\* ------------------------------------------------------------------- C34
\* the readiness flag of the machine of a builder
MachineReady(machine) == IF machine = "sm" THEN ready ELSE peer.ready
\* goroutine t is in the FireEvent call of a client, past the readiness check
ClientFired(t) ==
    /\ threads[t].op = "FireEvent" /\ threads[t].pc \in {"effect", "RUnlock"}
    /\ threads[t].callers # <<>> /\ threads[t].callers[1].op = "Client"

\* C34: Build makes the machine ready before it publishes it: in every
\* interleaving of Build with GetStateMachine callers every machine of the
\* registry is ready, and a firing on a machine obtained from the registry
\* never fails with the not-ready error.
C34_ReadyBeforePublished ==
    /\ \A m \in DOMAIN registry : MachineReady(registry[m])
    /\ \A t \in Threads :
          /\ (threads[t].op = "Client" /\ threads[t].machine # Nil)
                => MachineReady(threads[t].machine)
          /\ ClientFired(t) => threads[t].err # StateMachineNotReady

\* a client has fired an event on the machine it obtained, and the transition
\* was taken, while the builder of that machine is inside a Build call
C34_Witness ==
    \E t \in Threads : \E u \in Threads \ {t} :
        /\ ClientFired(t) /\ threads[t].err = NoError /\ threads[t].ret = "B"
        /\ threads[u].op = "Build" /\ threads[u].builder = "sm"
====
